---- MODULE Spec2Model ----
(***************************************************************************)
(* wifi-bander: the scanner parse paths (nmcli, iwlist, airport,           *)
(* system_profiler), the congestion score, the channel recommendation      *)
(* engine and main's polling loop.                                         *)
(*                                                                         *)
(* Recommendation scores are float64 in the source and float64 here: each  *)
(* addition, multiplication and division rounds as IEEE 754 does (one      *)
(* rounding per operation, as the amd64 build computes; a build that fuses *)
(* a multiplication with the addition after it can differ in the last      *)
(* bit), so that the order in which a map is ranged over shows in the sum. *)
(* Go leaves that order unspecified: a call of GetChannelRecommendations   *)
(* takes one order per landscape map out of all of them.  Every loop over  *)
(* the map draws its own order in the source; the model lets all loops of  *)
(* one call see the same order, so every result of the model is a result   *)
(* of the program.                                                         *)
(***************************************************************************)
EXTENDS Integers, Sequences, FiniteSets, TLC

(***************************************************************************)
(* Bounds of the model                                                     *)
(***************************************************************************)
\* longest tool output (records) a scan reads
MaxLines == 2
\* longest observation list handed to the analyzer directly
MaxNets == 2
\* channel numbers -MaxChannel..MaxChannel are given to channelToFrequency
MaxChannel == 180
\* congestion scores -MaxScore..MaxScore are given to GetCongestionLevel
MaxScore == 60
\* largest NetworkCount of a hand-built occupancy map entry
MaxCount == 3
\* the highest whole score getInterferenceLevel is called with directly
MaxInterference == 210

(***************************************************************************)
(* Small helpers                                                           *)
(***************************************************************************)
Range(s) == {s[i] : i \in DOMAIN s}

SeqsUpTo(S, n) == UNION {[1..k -> S] : k \in 0..n}

\* analyzer.go abs
abs(x) == IF x < 0 THEN -x ELSE x

(***************************************************************************)
(* Text tokens.  strconv.Atoi either fails or yields the integer the token *)
(* spells; a token is modelled by that outcome.                            *)
(***************************************************************************)
Num(n) == [ok |-> TRUE, val |-> n]
BadTok == [ok |-> FALSE, val |-> 0]

\* strconv.Atoi: [err, val]; val is 0 on error as in Go
Atoi(tok) == IF tok.ok THEN [err |-> FALSE, val |-> tok.val]
                       ELSE [err |-> TRUE, val |-> 0]

(***************************************************************************)
(* scanner.go                                                              *)
(***************************************************************************)
\* the simplified 5GHz mapping (36..64 as one range, no UNII-4)
scanner_channelToFrequency_Simplified(channel) ==
    IF channel >= 1 /\ channel <= 13 THEN 2412 + (channel - 1) * 5
    ELSE IF channel = 14 THEN 2484
    ELSE IF channel >= 36 /\ channel <= 64 THEN 5180 + (channel - 36) * 5
    ELSE IF channel >= 100 /\ channel <= 144 THEN 5500 + (channel - 100) * 5
    ELSE IF channel >= 149 /\ channel <= 165 THEN 5745 + (channel - 149) * 5
    ELSE 2412

\* scanner.channelToFrequency
scanner_channelToFrequency(channel) ==
    IF channel >= 1 /\ channel <= 13 THEN 2412 + (channel - 1) * 5
    ELSE IF channel = 14 THEN 2484
    ELSE IF channel >= 36 /\ channel <= 48 THEN 5180 + (channel - 36) * 5
    ELSE IF channel >= 52 /\ channel <= 64 THEN 5260 + (channel - 52) * 5
    ELSE IF channel >= 100 /\ channel <= 144 THEN 5500 + (channel - 100) * 5
    ELSE IF channel >= 149 /\ channel <= 165 THEN 5745 + (channel - 149) * 5
    ELSE IF channel >= 169 /\ channel <= 177 THEN 5845 + (channel - 169) * 5
    ELSE 2412

\* updateChannelMap keeping the signal of the first network of a channel
updateChannelMap_KeepFirst(channelMap, channel, signal) ==
    IF channel \in DOMAIN channelMap
    THEN [channelMap EXCEPT ![channel] =
            [Channel |-> @.Channel,
             NetworkCount |-> @.NetworkCount + 1,
             StrongestRSSI |-> @.StrongestRSSI]]
    ELSE [c \in DOMAIN channelMap \cup {channel} |->
            IF c = channel
            THEN [Channel |-> channel, NetworkCount |-> 1, StrongestRSSI |-> signal]
            ELSE channelMap[c]]

\* scanner.updateChannelMap: the map is a function from the channels present
updateChannelMap(channelMap, channel, signal) ==
    IF channel \in DOMAIN channelMap
    THEN [channelMap EXCEPT ![channel] =
            [Channel |-> @.Channel,
             NetworkCount |-> @.NetworkCount + 1,
             StrongestRSSI |-> IF signal > @.StrongestRSSI THEN signal
                               ELSE @.StrongestRSSI]]
    ELSE [c \in DOMAIN channelMap \cup {channel} |->
            IF c = channel
            THEN [Channel |-> channel, NetworkCount |-> 1, StrongestRSSI |-> signal]
            ELSE channelMap[c]]

\* scanner.estimateStationCount
estimateStationCount(signal, channel) ==
    1 + (IF signal > -40 THEN 3
         ELSE IF signal > -60 THEN 2
         ELSE IF signal > -80 THEN 1
         ELSE 0)
      + (IF channel <= 14 THEN 1 ELSE 0)

\* the empty map[int]*ChannelInfo
EmptyMap == [c \in {} |-> [Channel |-> 0, NetworkCount |-> 0, StrongestRSSI |-> 0]]

\* The dynamic type of a channel map handed to CalculateCongestionScore as
\* interface{}: the scanner builds map[int]*scanner.ChannelInfo, the analyzer
\* declares its own ChannelInfo.
ScannerMapType == "map[int]*scanner.ChannelInfo"
AnalyzerMapType == "map[int]*analyzer.ChannelInfo"

TypedMap(type, entries) == [type |-> type, entries |-> entries]

(***************************************************************************)
(* analyzer.go: congestion score                                           *)
(***************************************************************************)
\* StrongSignalPenalty with the thresholds made inclusive
StrongSignalPenalty_Inclusive(signal) ==
    IF signal >= -50 THEN 20 ELSE IF signal >= -70 THEN 10 ELSE 0

\* the "Penalty for strong signals" of both congestion formulas
StrongSignalPenalty(signal) ==
    IF signal > -50 THEN 20 ELSE IF signal > -70 THEN 10 ELSE 0

\* analyzer.calculateWithGenericMap
calculateWithGenericMap(network, channelMap) ==
    network.StationCount * 8 + StrongSignalPenalty(network.Signal) + 25

\* NetworkCount of a channel in map m, 0 when the channel has no entry
CountOn(m, ch) == IF ch \in DOMAIN m THEN m[ch].NetworkCount ELSE 0

\* the loop "for i := -2; i <= 2; i++ { if i == 0 { continue } ... }"
AdjacentOffsets == {-2, -1, 1, 2}

RECURSIVE SumOver(_, _, _)
\* sum of CountOn(m, ch + i) over the offsets i in S
SumOver(S, m, ch) ==
    IF S = {} THEN 0
    ELSE LET i == CHOOSE x \in S : TRUE
         IN CountOn(m, ch + i) + SumOver(S \ {i}, m, ch)

\* OccupancyScore with the same-channel term subtracted instead of added
OccupancyScore_SignSlip(network, m) ==
    (IF network.Band = "2.4G" THEN 5 * SumOver(AdjacentOffsets, m, network.Channel)
     ELSE 0)
    + network.StationCount * 8
    + StrongSignalPenalty(network.Signal)
    - CountOn(m, network.Channel) * 10

\* the branch of CalculateCongestionScore taken for map[int]*analyzer.ChannelInfo
OccupancyScore(network, m) ==
    CountOn(m, network.Channel) * 10
    + (IF network.Band = "2.4G" THEN 5 * SumOver(AdjacentOffsets, m, network.Channel)
       ELSE 0)
    + network.StationCount * 8
    + StrongSignalPenalty(network.Signal)

\* analyzer.CalculateCongestionScore: the type switch on channelMap
CalculateCongestionScore(network, channelMap) ==
    IF channelMap.type = AnalyzerMapType
    THEN OccupancyScore(network, channelMap.entries)
    ELSE calculateWithGenericMap(network, channelMap)

(***************************************************************************)
(* display.go                                                              *)
(***************************************************************************)
\* GetCongestionLevel with the bounds made exclusive
GetCongestionLevel_Exclusive(score) ==
    IF score < 15 THEN "Low"
    ELSE IF score < 30 THEN "Medium"
    ELSE IF score < 50 THEN "High"
    ELSE "Very High"

\* display.GetCongestionLevel
GetCongestionLevel(score) ==
    IF score <= 15 THEN "Low"
    ELSE IF score <= 30 THEN "Medium"
    ELSE IF score <= 50 THEN "High"
    ELSE "Very High"

(***************************************************************************)
(* linux.go: the records the scanners build                                *)
(***************************************************************************)
\* WiFiNetwork (unnamed/part_001); the fields no score, level or
\* recommendation reads (Security, PHYMode, NetworkType, BSSID, Vendor,
\* Quality, Noise, SNR) are left out.
WiFiNetwork(ssid, channel, signal, band, frequency, stationCount, width) ==
    [SSID |-> ssid, Channel |-> channel, Signal |-> signal, Band |-> band,
     CongestionScore |-> 0, Frequency |-> frequency,
     StationCount |-> stationCount, ChannelWidth |-> width]

\* var network WiFiNetwork / &WiFiNetwork{SSID: ssid}: Go's zero values
ZeroNetwork(ssid) == WiFiNetwork(ssid, 0, 0, "", 0, 0, "")

\* "if frequency > 5000 { band = "5G" }" of every scanner path
BandOf(frequency) == IF frequency > 5000 THEN "5G" ELSE "2.4G"

\* LinuxScanner.createWiFiNetworkEnhanced
createWiFiNetworkEnhanced(ssid, channel, signal, frequency) ==
    LET band == BandOf(frequency)
    IN WiFiNetwork(ssid, channel, signal, band, frequency,
                   estimateStationCount(signal, channel),
                   IF band = "5G" THEN "80MHz" ELSE "20MHz")

\* MacOSScanner.createWiFiNetwork
macos_createWiFiNetwork(ssid, channel, signal) ==
    LET frequency == scanner_channelToFrequency(channel)
    IN WiFiNetwork(ssid, channel, signal, BandOf(frequency), frequency,
                   estimateStationCount(signal, channel), "Unknown")

\* "Calculate congestion scores": the loop that closes every parse function.
\* channelMap is the scanner's own map[int]*scanner.ChannelInfo.
AttachScores(networks, channelMap) ==
    [i \in DOMAIN networks |->
        [networks[i] EXCEPT !.CongestionScore =
            CalculateCongestionScore(networks[i],
                                     TypedMap(ScannerMapType, channelMap))]]

\* what a parse function leaves behind: the returned list and its local map
Parsed(networks, channelMap) ==
    [panic |-> FALSE, networks |-> AttachScores(networks, channelMap),
     channelMap |-> channelMap]

\* a parse function that did not return: a run-time panic unwound it
Panicked == [panic |-> TRUE, networks |-> <<>>, channelMap |-> EmptyMap]

(***************************************************************************)
(* LinuxScanner.parseNmcliOutput.  A line of nmcli -t output is modelled   *)
(* by what the parser reads of it: whether it is blank, the number of      *)
(* ":"-separated parts, the SSID part and the CHAN, SIGNAL and FREQ tokens.*)
(***************************************************************************)
NmcliLine(blank, nparts, ssid, chan, signal, freq) ==
    [blank |-> blank, nparts |-> nparts, ssid |-> ssid,
     chan |-> chan, signal |-> signal, freq |-> freq]

\* TRUE when the loop body reaches createWiFiNetworkEnhanced for the line
NmcliLineAccepted(line) ==
    /\ ~line.blank
    /\ line.nparts >= 4
    /\ line.ssid # "" /\ line.ssid # "--"
    /\ ~Atoi(line.chan).err
    /\ ~Atoi(line.signal).err
    /\ ~Atoi(line.freq).err

RECURSIVE nmcliLoop(_, _, _, _)
\* the "for _, line := range lines" loop from line i on
nmcliLoop(lines, i, networks, channelMap) ==
    IF i > Len(lines) THEN Parsed(networks, channelMap)
    ELSE IF ~NmcliLineAccepted(lines[i])
         THEN nmcliLoop(lines, i + 1, networks, channelMap)
         ELSE LET channel == Atoi(lines[i].chan).val
                  signal == Atoi(lines[i].signal).val
                  frequency == Atoi(lines[i].freq).val
                  network == createWiFiNetworkEnhanced(lines[i].ssid, channel,
                                                       signal, frequency)
              IN nmcliLoop(lines, i + 1, Append(networks, network),
                           updateChannelMap(channelMap, channel, signal))

parseNmcliOutput(lines) == nmcliLoop(lines, 1, <<>>, EmptyMap)

(***************************************************************************)
(* LinuxScanner.parseIwlistOutput / parseIwlistCell.  A cell is modelled   *)
(* by the last line of each kind the parser acts on: the ESSID, the token  *)
(* after "Channel:", the token after "Signal level=" (and whether it has   *)
(* the "70/70" form; sigKind "none" is a cell without such a line, "empty" *)
(* a line on which nothing follows "Signal level="), the token after       *)
(* "Frequency:" (a decimal number of GHz with three decimals, given in     *)
(* thousandths).                                                           *)
(***************************************************************************)
IwlistCell(essid, channel, sigKind, signal, hasFreq, ghzMilli) ==
    [essid |-> essid, channel |-> channel, sigKind |-> sigKind,
     signal |-> signal, hasFreq |-> hasFreq, ghzMilli |-> ghzMilli]

\* the decimals d.ddd for which float64(d.ddd) * 1000 is just below the
\* integer, so that int(freq * 1000) loses one MHz (2000..6000)
TruncLoss ==
    {2002, 2006, 2010, 2014, 2018, 2022, 2026, 2030, 2034, 2038, 2042, 2046,
     4004, 4007, 4012, 4015, 4020, 4023, 4028, 4031, 4036, 4039, 4044, 4047,
     4052, 4055, 4060, 4063, 4068, 4071, 4076, 4079, 4084, 4087, 4092, 4095}

\* int(freq * 1000) for freq = ParseFloat("d.ddd")
GHzToMHz(ghzMilli) == IF ghzMilli \in TruncLoss THEN ghzMilli - 1 ELSE ghzMilli

\* LinuxScanner.parseIwlistCell: [panic, err, network].
\* "signalStr := strings.Fields(parts[1])[0]" indexes an empty slice when
\* nothing follows "Signal level=": index out of range, a run-time panic.
parseIwlistCell(cell) ==
    LET ch == IF Atoi(cell.channel).err THEN 0 ELSE Atoi(cell.channel).val
        sig == IF cell.sigKind = "none" \/ Atoi(cell.signal).err THEN 0
               ELSE IF cell.sigKind = "ratio" THEN Atoi(cell.signal).val - 100
               ELSE Atoi(cell.signal).val
        parsedFreq == IF cell.hasFreq THEN GHzToMHz(cell.ghzMilli) ELSE 0
        band == BandOf(parsedFreq)
        frequency == IF parsedFreq = 0 /\ ch # 0
                     THEN scanner_channelToFrequency(ch) ELSE parsedFreq
    IN [panic |-> cell.sigKind = "empty",
        err |-> (cell.essid = "" \/ ch = 0),
        network |-> WiFiNetwork(cell.essid, ch, sig, band, frequency,
                                estimateStationCount(sig, ch), "Unknown")]

RECURSIVE iwlistLoop(_, _, _, _)
\* the "for _, cell := range cells[1:]" loop from cell i on
iwlistLoop(cells, i, networks, channelMap) ==
    IF i > Len(cells) THEN Parsed(networks, channelMap)
    ELSE LET r == parseIwlistCell(cells[i])
         IN IF r.panic THEN Panicked
            ELSE IF r.err THEN iwlistLoop(cells, i + 1, networks, channelMap)
            ELSE iwlistLoop(cells, i + 1, Append(networks, r.network),
                            updateChannelMap(channelMap, r.network.Channel,
                                             r.network.Signal))

parseIwlistOutput(cells) == iwlistLoop(cells, 1, <<>>, EmptyMap)

(***************************************************************************)
(* MacOSScanner.parseAirportOutput.  A line of airport -s output is        *)
(* modelled by whether it is blank, its number of whitespace-separated     *)
(* fields, the SSID the parser extracts (fields are never empty, so it is  *)
(* not "" when there are 3 fields or more) and the tokens at len-2         *)
(* (channel) and len-3 (signal).                                           *)
(***************************************************************************)
AirportLine(blank, nparts, ssid, chan, signal) ==
    [blank |-> blank, nparts |-> nparts, ssid |-> ssid,
     chan |-> chan, signal |-> signal]

\* TRUE when the loop body reaches createWiFiNetwork for line i
AirportLineAccepted(lines, i) ==
    /\ i # 1                       \* "if i == 0": the header line
    /\ ~lines[i].blank
    /\ lines[i].nparts >= 3
    /\ ~Atoi(lines[i].chan).err
    /\ ~Atoi(lines[i].signal).err
    /\ ~(lines[i].ssid = "" \/ Atoi(lines[i].chan).val = 0)

RECURSIVE airportLoop(_, _, _, _)
\* the "for i, line := range lines" loop from line i on (i = 1 is Go's 0)
airportLoop(lines, i, networks, channelMap) ==
    IF i > Len(lines) THEN Parsed(networks, channelMap)
    ELSE IF ~AirportLineAccepted(lines, i)
         THEN airportLoop(lines, i + 1, networks, channelMap)
         ELSE LET channel == Atoi(lines[i].chan).val
                  signal == Atoi(lines[i].signal).val
                  network == macos_createWiFiNetwork(lines[i].ssid, channel, signal)
              IN airportLoop(lines, i + 1, Append(networks, network),
                             updateChannelMap(channelMap, channel, signal))

parseAirportOutput(lines) == airportLoop(lines, 1, <<>>, EmptyMap)

(***************************************************************************)
(* MacOSScanner.parseSystemProfilerOutput / parseNetworkProperty.  A line  *)
(* of system_profiler output is one of: the section line ("Other Local     *)
(* Wi-Fi Networks:"), a network name line ("<ssid>:"), a "Channel:" line   *)
(* (first token of the value, and the width found in the parentheses, ""   *)
(* when there is none), a "Signal / Noise:" line (first token of the       *)
(* value, number of fields of the value), or any other property line.      *)
(***************************************************************************)
SectionLine == [kind |-> "section"]
NameLine(ssid) == [kind |-> "name", ssid |-> ssid]
ChannelLine(tok, width) == [kind |-> "Channel", tok |-> tok, width |-> width]
SignalLine(tok, nfields) == [kind |-> "Signal / Noise", tok |-> tok, nfields |-> nfields]
OtherLine == [kind |-> "other"]

\* MacOSScanner.parseNetworkProperty, cases "Channel" and "Signal / Noise"
parseNetworkProperty(network, line) ==
    IF line.kind = "Channel"
    THEN LET n1 == IF Atoi(line.tok).err THEN network
                   ELSE LET ch == Atoi(line.tok).val
                            f == scanner_channelToFrequency(ch)
                        IN [network EXCEPT !.Channel = ch, !.Frequency = f,
                                           !.Band = BandOf(f)]
         IN IF line.width # "" THEN [n1 EXCEPT !.ChannelWidth = line.width] ELSE n1
    ELSE IF line.kind = "Signal / Noise"
    THEN IF line.nfields >= 4 /\ ~Atoi(line.tok).err
         THEN [network EXCEPT
                 !.Signal = Atoi(line.tok).val,
                 !.StationCount = estimateStationCount(Atoi(line.tok).val,
                                                       network.Channel)]
         ELSE network
    ELSE network

\* "currentNetwork != nil && currentNetwork.SSID != "" && currentNetwork.Channel != 0"
ProfilerKeeps(cur) == cur.set /\ cur.net.SSID # "" /\ cur.net.Channel # 0

NoCurrent == [set |-> FALSE, net |-> ZeroNetwork("")]

RECURSIVE profilerLoop(_, _, _, _, _, _)
\* the "for _, line := range lines" loop from line i on; cur is currentNetwork
profilerLoop(lines, i, inOther, cur, networks, channelMap) ==
    IF i > Len(lines)
    THEN \* "Add the last network"
         IF ProfilerKeeps(cur)
         THEN Parsed(Append(networks, cur.net),
                     updateChannelMap(channelMap, cur.net.Channel, cur.net.Signal))
         ELSE Parsed(networks, channelMap)
    ELSE IF lines[i].kind = "section"
    THEN profilerLoop(lines, i + 1, TRUE, cur, networks, channelMap)
    ELSE IF ~inOther
    THEN profilerLoop(lines, i + 1, inOther, cur, networks, channelMap)
    ELSE IF lines[i].kind = "name"
    THEN LET next == [set |-> TRUE, net |-> ZeroNetwork(lines[i].ssid)]
         IN IF ProfilerKeeps(cur)
            THEN profilerLoop(lines, i + 1, inOther, next,
                              Append(networks, cur.net),
                              updateChannelMap(channelMap, cur.net.Channel,
                                               cur.net.Signal))
            ELSE profilerLoop(lines, i + 1, inOther, next, networks, channelMap)
    ELSE IF cur.set
    THEN profilerLoop(lines, i + 1, inOther,
                      [cur EXCEPT !.net = parseNetworkProperty(cur.net, lines[i])],
                      networks, channelMap)
    ELSE profilerLoop(lines, i + 1, inOther, cur, networks, channelMap)

parseSystemProfilerOutput(lines) ==
    profilerLoop(lines, 1, FALSE, NoCurrent, <<>>, EmptyMap)

(***************************************************************************)
(* float64.  The recommendation scores are Go float64 values, built by     *)
(* IEEE 754 additions, multiplications and divisions, each rounded to 53   *)
(* significant bits (round to nearest, ties to even).  A float64 v that is *)
(* 0 or lies in [2^-4, 2^10) is a multiple of 2^-56 and is represented     *)
(* exactly by the integer v * 2^56, written in base 2^14 as five limbs,    *)
(* least significant first.  Every value the score arithmetic produces for *)
(* the inputs of this model lies in that range; NaN64 marks a result       *)
(* outside it.                                                             *)
(***************************************************************************)
LIMB == 2 * 8192

Zero64 == <<0, 0, 0, 0, 0>>

NaN64 == <<-1, -1, -1, -1, -1>>

\* float64(n) for an integer 0 <= n < 1024
float64FromInt(n) == <<0, 0, 0, 0, n>>

\* the number of bits of a limb (0 for 0)
bitLenLimb(x) == CHOOSE n \in 0..14 : x < 2^n /\ (n = 0 \/ x >= 2^(n - 1))

\* the index of the most significant limb of N that is not 0 (0 when N = 0)
topLimb(N) ==
    IF \A i \in DOMAIN N : N[i] = 0 THEN 0
    ELSE CHOOSE t \in DOMAIN N : N[t] # 0 /\ \A i \in DOMAIN N : i > t => N[i] = 0

\* the number of bits of the natural number with limbs N
bitLen(N) ==
    IF topLimb(N) = 0 THEN 0
    ELSE (topLimb(N) - 1) * 14 + bitLenLimb(N[topLimb(N)])

\* bit i (from 0) of the natural number with limbs N
bitOf(N, i) ==
    IF (i \div 14) + 1 \in DOMAIN N
    THEN (N[(i \div 14) + 1] \div 2^(i % 14)) % 2
    ELSE 0

\* TRUE when some bit below bit i of N is set
anyBitBelow(N, i) ==
    \/ \E j \in DOMAIN N : j < (i \div 14) + 1 /\ N[j] # 0
    \/ ((i \div 14) + 1 \in DOMAIN N /\ (N[(i \div 14) + 1] % 2^(i % 14)) # 0)

\* limb j of N, 0 beyond its length
limbOf(N, j) == IF j \in DOMAIN N THEN N[j] ELSE 0

\* the five limbs <<y1, ..>> with l added to the least significant one
addToLowLimb(Y, l) ==
    LET s1 == Y[1] + l
        s2 == Y[2] + (s1 \div LIMB)
        s3 == Y[3] + (s2 \div LIMB)
        s4 == Y[4] + (s3 \div LIMB)
        s5 == Y[5] + (s4 \div LIMB)
    IN <<s1 % LIMB, s2 % LIMB, s3 % LIMB, s4 % LIMB, s5>>

\* The float64 nearest to N * 2^-(56 + 14 * k), ties to even, where N is a
\* natural number given by its limbs and sticky tells that the exact value
\* lies strictly above N (a division with a remainder).
round64(N, k, sticky) ==
    IF topLimb(N) = 0 THEN Zero64
    ELSE LET drop == bitLen(N) - 53       \* the bits of N that do not fit
             ulp == drop - 14 * k         \* log2 of the unit in the last place
         IN IF ulp < 0 \/ ulp > 13 THEN NaN64
            ELSE LET Y == [j \in 1..5 |-> limbOf(N, j + k)]
                     guard == IF drop = 0 THEN 0 ELSE bitOf(N, drop - 1)
                     rest == sticky \/ (drop >= 2 /\ anyBitBelow(N, drop - 1))
                     up == guard = 1 /\ (rest \/ bitOf(N, drop) = 1)
                 IN addToLowLimb(Y, (IF up THEN 2^ulp ELSE 0) - (Y[1] % 2^ulp))

\* x + y of two float64
float64Add(X, Y) ==
    IF X = Zero64 THEN Y
    ELSE IF Y = Zero64 THEN X
    ELSE LET s1 == X[1] + Y[1]
             s2 == X[2] + Y[2] + (s1 \div LIMB)
             s3 == X[3] + Y[3] + (s2 \div LIMB)
             s4 == X[4] + Y[4] + (s3 \div LIMB)
             s5 == X[5] + Y[5] + (s4 \div LIMB)
         IN round64(<<s1 % LIMB, s2 % LIMB, s3 % LIMB, s4 % LIMB, s5 % LIMB,
                      s5 \div LIMB>>, 0, FALSE)

\* column c (from 2) of the schoolbook product of X and Y
mulColumn(X, Y, c) ==
    LET term(i) == IF i \in 1..5 /\ c - i \in 1..5 THEN X[i] * Y[c - i] ELSE 0
    IN term(1) + term(2) + term(3) + term(4) + term(5)

RECURSIVE mulCarry(_, _, _, _, _)
\* the limbs of X * Y from column c on, carry coming in
mulCarry(X, Y, c, carry, limbs) ==
    IF c > 11 THEN limbs
    ELSE LET s == mulColumn(X, Y, c) + carry
         IN mulCarry(X, Y, c + 1, s \div LIMB, Append(limbs, s % LIMB))

\* x * y of two float64
float64Mul(X, Y) ==
    IF X = Zero64 \/ Y = Zero64 THEN Zero64
    ELSE round64(mulCarry(X, Y, 2, 0, <<>>), 4, FALSE)

\* a >= b for naturals given by five limbs
geq5(a, b) ==
    \/ a = b
    \/ \E t \in 1..5 : a[t] > b[t] /\ \A i \in 1..5 : i > t => a[i] = b[i]

\* a - b for naturals given by five limbs, a >= b
sub5(a, b) ==
    LET d1 == a[1] - b[1]
        w1 == IF d1 < 0 THEN 1 ELSE 0
        d2 == a[2] - b[2] - w1
        w2 == IF d2 < 0 THEN 1 ELSE 0
        d3 == a[3] - b[3] - w2
        w3 == IF d3 < 0 THEN 1 ELSE 0
        d4 == a[4] - b[4] - w3
        w4 == IF d4 < 0 THEN 1 ELSE 0
        d5 == a[5] - b[5] - w4
    IN <<d1 + w1 * LIMB, d2 + w2 * LIMB, d3 + w3 * LIMB, d4 + w4 * LIMB, d5>>

\* 2 * a + b for a natural given by five limbs and a bit b
double5(a, b) ==
    LET s1 == 2 * a[1] + b
        s2 == 2 * a[2] + (s1 \div LIMB)
        s3 == 2 * a[3] + (s2 \div LIMB)
        s4 == 2 * a[4] + (s3 \div LIMB)
        s5 == 2 * a[5] + (s4 \div LIMB)
    IN <<s1 % LIMB, s2 % LIMB, s3 % LIMB, s4 % LIMB, s5>>

\* the remainder and the quotient digit after one step of the long division
\* by Y: r is the remainder with the next bit of the dividend brought down
divDecide(Y, r, digit) ==
    IF geq5(r, Y) THEN [rem |-> sub5(r, Y), digit |-> 2 * digit + 1]
    ELSE [rem |-> r, digit |-> 2 * digit]

\* one step of the long division of X * 2^70 by Y: bit i of the dividend is
\* brought down to the remainder, the next bit of the quotient digit found
divStep(X, Y, i, st) ==
    divDecide(Y, double5(st.rem, IF i >= 70 THEN bitOf(X, i - 70) ELSE 0), st.digit)

RECURSIVE divBits(_, _, _, _, _)
\* the n steps for the bits i, i - 1, .. of the dividend
divBits(X, Y, i, n, st) ==
    IF n = 0 THEN st
    ELSE divBits(X, Y, i - 1, n - 1, divStep(X, Y, i, st))

\* the 14 steps that give limb j of the quotient
divLimb(X, Y, j, rem) ==
    divBits(X, Y, 14 * (j - 1) + 13, 14, [rem |-> rem, digit |-> 0])

RECURSIVE divLimbs(_, _, _, _, _)
\* the long division from limb j - 1 of the quotient down, limb j being s.digit
divLimbsBelow(X, Y, j, s, quot) ==
    IF s.digit >= 0 /\ s.rem # NaN64
    THEN divLimbs(X, Y, j - 1, s.rem, <<s.digit>> \o quot)
    ELSE [quot |-> quot, sticky |-> TRUE]

\* the long division of X * 2^70 by Y from limb j of the quotient down: the
\* quotient and whether a remainder is left
divLimbs(X, Y, j, rem, quot) ==
    IF j = 0 THEN [quot |-> quot, sticky |-> rem # Zero64]
    ELSE divLimbsBelow(X, Y, j, divLimb(X, Y, j, rem), quot)

\* the float64 nearest to the quotient d of a long division
roundQuotient(d) == round64(d.quot, 1, d.sticky)

\* x / y of two float64, y # 0
float64Div(X, Y) ==
    IF Y = Zero64 THEN NaN64
    ELSE IF X = Zero64 THEN Zero64
    ELSE roundQuotient(divLimbs(X, Y, 10, Zero64, <<>>))

\* x < y of two float64
float64Less(X, Y) ==
    \E t \in 1..5 : X[t] < Y[t] /\ \A i \in 1..5 : i > t => X[i] = Y[i]

\* x <= y of two float64
float64Leq(X, Y) == X = Y \/ float64Less(X, Y)

(***************************************************************************)
(* analyzer.go: channel recommendation engine                              *)
(***************************************************************************)
\* analyzer.channelToFrequency
analyzer_channelToFrequency(channel) ==
    IF channel >= 1 /\ channel <= 13 THEN 2412 + (channel - 1) * 5
    ELSE IF channel = 14 THEN 2484
    ELSE IF channel >= 36 /\ channel <= 48 THEN 5180 + (channel - 36) * 5
    ELSE IF channel >= 52 /\ channel <= 64 THEN 5260 + (channel - 52) * 5
    ELSE IF channel >= 100 /\ channel <= 144 THEN 5500 + (channel - 100) * 5
    ELSE IF channel >= 149 /\ channel <= 165 THEN 5745 + (channel - 149) * 5
    ELSE IF channel >= 169 /\ channel <= 177 THEN 5845 + (channel - 169) * 5
    ELSE 2412

\* availableChannels of getBest24GHzChannels (= Channels24GHz_Europe)
availableChannels == <<1, 2, 3, 4, 5, 6, 7, 8, 9, 10, 11, 12, 13>>

\* analyzer.getAllAvailable5GHzChannels: UNII-1, 2A, 2C, 3, 4 appended
getAllAvailable5GHzChannels ==
    <<36, 40, 44, 48>> \o <<52, 56, 60, 64>>
    \o <<100, 104, 108, 112, 116, 120, 124, 128, 132, 136, 140, 144>>
    \o <<149, 153, 157, 161, 165>> \o <<169, 173, 177>>

\* analyzer.getChannelWidth
getChannelWidth(network) ==
    IF network.ChannelWidth # "Unknown" /\ network.ChannelWidth # ""
    THEN network.ChannelWidth
    ELSE IF network.Band = "5G" THEN "80MHz" ELSE "20MHz"

\* the empty map[int]*NetworkAnalysis
EmptyAnalysis ==
    [c \in {} |-> [Channel |-> 0, Frequency |-> 0, Signal |-> 0,
                   ChannelWidth |-> "", NetworkCount |-> 0, StrongestRSSI |-> 0]]

RECURSIVE landscapeLoop(_, _, _, _)
\* the "for _, network := range networks" loop of analyzeChannelLandscape
landscapeLoop(networks, i, band, analysis) ==
    IF i > Len(networks) THEN analysis
    ELSE IF networks[i].Band # band
    THEN landscapeLoop(networks, i + 1, band, analysis)
    ELSE LET ch == networks[i].Channel
             signal == networks[i].Signal
         IN IF ch \in DOMAIN analysis
            THEN landscapeLoop(networks, i + 1, band,
                   [analysis EXCEPT ![ch] =
                      [@ EXCEPT !.NetworkCount = @ + 1,
                                !.StrongestRSSI = IF signal > @ THEN signal ELSE @]])
            ELSE landscapeLoop(networks, i + 1, band,
                   [c \in DOMAIN analysis \cup {ch} |->
                      IF c = ch
                      THEN [Channel |-> ch,
                            Frequency |-> analyzer_channelToFrequency(ch),
                            Signal |-> signal,
                            ChannelWidth |-> getChannelWidth(networks[i]),
                            NetworkCount |-> 1,
                            StrongestRSSI |-> signal]
                      ELSE analysis[c]])

\* analyzeChannelLandscape taking the observations of every band label
analyzeChannelLandscape_AnyBand(networks, band) ==
    landscapeLoop([i \in DOMAIN networks |-> [networks[i] EXCEPT !.Band = band]],
                  1, band, EmptyAnalysis)

\* analyzer.analyzeChannelLandscape
analyzeChannelLandscape(networks, band) ==
    landscapeLoop(networks, 1, band, EmptyAnalysis)

\* signalWeight of calculateSignalPenalty
signalWeight(signalStrength) ==
    IF signalStrength > -40 THEN 20
    ELSE IF signalStrength > -60 THEN 10
    ELSE IF signalStrength > -80 THEN 5
    ELSE 0

\* the frequency distances calculateSignalPenalty is called with
\* (freqDiff <= 15 on 2.4G, freqDiff <= 80 on 5G, never 0)
FreqDiffs == 1..80

\* "distanceFactor := 1.0 / (1.0 + float64(freqDiff)/10.0)"
distanceFactor(freqDiff) ==
    float64Div(float64FromInt(1),
               float64Add(float64FromInt(1),
                          float64Div(float64FromInt(freqDiff), float64FromInt(10))))

\* "signalWeight * distanceFactor", computed once for every weight and distance
signalPenalties ==
    [w \in {0, 5, 10, 20} |->
        [d \in FreqDiffs |-> float64Mul(float64FromInt(w), distanceFactor(d))]]

\* analyzer.calculateSignalPenalty
calculateSignalPenalty(signalStrength, freqDiff) ==
    signalPenalties[signalWeight(signalStrength)][freqDiff]

\* "nonOverlapping := []int{1, 6, 11}"
nonOverlapping == {1, 6, 11}

\* contribution24 with the interference range taken exclusive
contribution24_Exclusive(score, frequency, net) ==
    LET freqDiff == abs(frequency - net.Frequency)
    IN IF freqDiff = 0
       THEN LET same == float64Add(score, float64FromInt(net.NetworkCount * 50))
            IN IF net.StrongestRSSI > -60
               THEN float64Add(same, float64FromInt(30))
               ELSE same
       ELSE IF freqDiff < 15
       THEN float64Add(
                float64Add(score,
                           float64FromInt((30 - freqDiff * 2) * net.NetworkCount)),
                calculateSignalPenalty(net.StrongestRSSI, freqDiff))
       ELSE score

\* contribution24 with the same-channel weight no higher than the adjacent
\* channel's
contribution24_FlatWeight(score, frequency, net) ==
    LET freqDiff == abs(frequency - net.Frequency)
    IN IF freqDiff = 0
       THEN LET same == float64Add(score, float64FromInt(net.NetworkCount * 30))
            IN IF net.StrongestRSSI > -60
               THEN float64Add(same, float64FromInt(30))
               ELSE same
       ELSE IF freqDiff <= 15
       THEN float64Add(
                float64Add(score,
                           float64FromInt((30 - freqDiff * 2) * net.NetworkCount)),
                calculateSignalPenalty(net.StrongestRSSI, freqDiff))
       ELSE score

\* contribution24 with an interference range of 20 MHz
contribution24_WideRange(score, frequency, net) ==
    LET freqDiff == abs(frequency - net.Frequency)
    IN IF freqDiff = 0
       THEN LET same == float64Add(score, float64FromInt(net.NetworkCount * 50))
            IN IF net.StrongestRSSI > -60
               THEN float64Add(same, float64FromInt(30))
               ELSE same
       ELSE IF freqDiff <= 20
       THEN float64Add(
                float64Add(score,
                           float64FromInt((30 - freqDiff * 2) * net.NetworkCount)),
                calculateSignalPenalty(net.StrongestRSSI, freqDiff))
       ELSE score

\* the body of the range loop of calculate24GHzScore for the entry net: the
\* score after it.  NetworkCount*50.0 and (30.0 - freqDiff*2.0)*NetworkCount
\* are products of whole numbers and exact.
contribution24(score, frequency, net) ==
    LET freqDiff == abs(frequency - net.Frequency)
    IN IF freqDiff = 0
       THEN LET same == float64Add(score, float64FromInt(net.NetworkCount * 50))
            IN IF net.StrongestRSSI > -60
               THEN float64Add(same, float64FromInt(30))
               ELSE same
       ELSE IF freqDiff <= 15
       THEN float64Add(
                float64Add(score,
                           float64FromInt((30 - freqDiff * 2) * net.NetworkCount)),
                calculateSignalPenalty(net.StrongestRSSI, freqDiff))
       ELSE score

\* "interferenceWeight := float64(interferenceRange-freqDiff) / 10.0",
\* computed once for every distance
interferenceWeights5 ==
    [d \in FreqDiffs |-> float64Div(float64FromInt(80 - d), float64FromInt(10))]

\* the float64 constant 0.8
Point8 == float64Div(float64FromInt(8), float64FromInt(10))

\* "signalPenalty * 0.8", computed once for every weight and distance
signalPenalties5 ==
    [w \in {0, 5, 10, 20} |->
        [d \in FreqDiffs |-> float64Mul(signalPenalties[w][d], Point8)]]

\* contribution5 with the signal penalty taken in full
contribution5_Unweighted(score, frequency, net) ==
    LET freqDiff == abs(frequency - net.Frequency)
    IN IF freqDiff = 0
       THEN LET same == float64Add(score, float64FromInt(net.NetworkCount * 40))
            IN IF net.StrongestRSSI > -60
               THEN float64Add(same, float64FromInt(25))
               ELSE same
       ELSE IF freqDiff <= 80
       THEN float64Add(
                float64Add(score,
                           float64Mul(interferenceWeights5[freqDiff],
                                      float64FromInt(net.NetworkCount))),
                signalPenalties[signalWeight(net.StrongestRSSI)][freqDiff])
       ELSE score

\* the body of the range loop of calculate5GHzScore for the entry net: the
\* score after it
contribution5(score, frequency, net) ==
    LET freqDiff == abs(frequency - net.Frequency)
    IN IF freqDiff = 0
       THEN LET same == float64Add(score, float64FromInt(net.NetworkCount * 40))
            IN IF net.StrongestRSSI > -60
               THEN float64Add(same, float64FromInt(25))
               ELSE same
       ELSE IF freqDiff <= 80
       THEN float64Add(
                float64Add(score,
                           float64Mul(interferenceWeights5[freqDiff],
                                      float64FromInt(net.NetworkCount))),
                signalPenalties5[signalWeight(net.StrongestRSSI)][freqDiff])
       ELSE score

\* The orders a "for _, net := range analysis" loop can visit the entries in:
\* Go leaves the iteration order of a map unspecified, and it may differ from
\* one loop to the next.
IterationOrders(analysis) ==
    {order \in [1..Cardinality(DOMAIN analysis) -> DOMAIN analysis] :
        \A i, j \in DOMAIN order : i # j => order[i] # order[j]}

RECURSIVE sum24(_, _, _, _, _)
\* "for _, net := range analysis" of calculate24GHzScore, visiting the keys
\* in the given order, from the i-th on
sum24(order, i, frequency, analysis, score) ==
    IF i > Len(order) THEN score
    ELSE sum24(order, i + 1, frequency, analysis,
               contribution24(score, frequency, analysis[order[i]]))

RECURSIVE sum5(_, _, _, _, _)
\* "for _, net := range analysis" of calculate5GHzScore, visiting the keys in
\* the given order, from the i-th on
sum5(order, i, frequency, analysis, score) ==
    IF i > Len(order) THEN score
    ELSE sum5(order, i + 1, frequency, analysis,
              contribution5(score, frequency, analysis[order[i]]))

\* analyzer.calculate24GHzScore, its loop visiting the map in the given order
calculate24GHzScore(channel, frequency, analysis, order) ==
    sum24(order, 1, frequency, analysis,
          IF channel \in nonOverlapping THEN Zero64 ELSE float64FromInt(20))

\* isDFS of calculate5GHzScore and getReasoning5GHz
isDFS(channel) ==
    (channel >= 52 /\ channel <= 64) \/ (channel >= 100 /\ channel <= 144)

\* analyzer.calculate5GHzScore, its loop visiting the map in the given order
calculate5GHzScore(channel, frequency, analysis, order) ==
    sum5(order, 1, frequency, analysis,
         IF isDFS(channel) THEN float64FromInt(10) ELSE Zero64)

\* calculateFrequencyGap returning its initial minGap when no gap was found
calculateFrequencyGap_NoSentinel(frequency, analysis) ==
    LET gaps == {abs(frequency - analysis[k].Frequency) : k \in DOMAIN analysis}
        positive == {g \in gaps : g > 0 /\ g < 1000}
    IN IF positive = {} THEN 1000
       ELSE CHOOSE g \in positive : \A h \in positive : g <= h

\* analyzer.calculateFrequencyGap
calculateFrequencyGap(frequency, analysis) ==
    LET gaps == {abs(frequency - analysis[k].Frequency) : k \in DOMAIN analysis}
        positive == {g \in gaps : g > 0 /\ g < 1000}
    IN IF positive = {} THEN 0
       ELSE CHOOSE g \in positive : \A h \in positive : g <= h

\* analyzer.getReasoning24GHz: the format string and its arguments
getReasoning24GHz(channel, analysis) ==
    IF channel \notin DOMAIN analysis
    THEN IF channel \in nonOverlapping
         THEN <<"Optimal: Non-overlapping channel with no detected networks">>
         ELSE <<"Good: No networks detected, minimal interference expected">>
    ELSE IF channel \in nonOverlapping
    THEN <<"Fair: Non-overlapping but has %d network(s), strongest at %d dBm",
           analysis[channel].NetworkCount, analysis[channel].StrongestRSSI>>
    ELSE <<"Suboptimal: Overlapping channel with %d network(s)",
           analysis[channel].NetworkCount>>

\* analyzer.getReasoning5GHz: the format string and its arguments
getReasoning5GHz(channel, analysis) ==
    IF channel \notin DOMAIN analysis
    THEN IF isDFS(channel)
         THEN <<"Good: DFS channel with no detected networks, radar detection required">>
         ELSE <<"Excellent: Non-DFS channel with no detected networks">>
    ELSE <<"%s: %d network(s), strongest at %d dBm%s",
           IF analysis[channel].NetworkCount = 1
              /\ analysis[channel].StrongestRSSI < -70 THEN "Good" ELSE "Fair",
           analysis[channel].NetworkCount, analysis[channel].StrongestRSSI,
           IF isDFS(channel) THEN ", DFS required" ELSE "">>

\* getInterferenceLevel with every threshold exclusive
getInterferenceLevel_Exclusive(score) ==
    IF float64Less(score, float64FromInt(20)) THEN "Minimal"
    ELSE IF float64Less(score, float64FromInt(50)) THEN "Low"
    ELSE IF float64Less(score, float64FromInt(100)) THEN "Moderate"
    ELSE IF float64Less(score, float64FromInt(200)) THEN "High"
    ELSE "Very High"

\* analyzer.getInterferenceLevel
getInterferenceLevel(score) ==
    IF float64Leq(score, float64FromInt(20)) THEN "Minimal"
    ELSE IF float64Leq(score, float64FromInt(50)) THEN "Low"
    ELSE IF float64Leq(score, float64FromInt(100)) THEN "Moderate"
    ELSE IF float64Leq(score, float64FromInt(200)) THEN "High"
    ELSE "Very High"

(***************************************************************************)
(* sort.Slice.  It is not stable: which of two elements with equal keys    *)
(* comes first is decided by the library's algorithm, the same way on      *)
(* every call of one build.  TieRules are the resolutions modelled: equal  *)
(* keys keep their order, or equal keys come out reversed.                 *)
(***************************************************************************)
TieRules == {"keep", "reverse"}

Reverse(s) == [i \in 1..Len(s) |-> s[Len(s) + 1 - i]]

RECURSIVE insertSorted(_, _, _)
\* index x put into the sorted sequence of indices s behind every index that
\* is not after it by less
insertSorted(s, x, less) ==
    IF s = <<>> THEN <<x>>
    ELSE IF less[x][Head(s)] THEN <<x>> \o s
    ELSE <<Head(s)>> \o insertSorted(Tail(s), x, less)

RECURSIVE insertionSort(_, _, _)
\* the indices of s inserted one by one into sorted
insertionSort(s, sorted, less) ==
    IF s = <<>> THEN sorted
    ELSE insertionSort(Tail(s), insertSorted(sorted, Head(s), less), less)

\* sort.Slice(s, less): less[i][j] is the func(i, j int) bool of the call,
\* evaluated on the slice as it is handed over
SortSlice(s, less, rule) ==
    LET indices == [i \in 1..Len(s) |-> i]
        sorted == insertionSort(IF rule = "keep" THEN indices ELSE Reverse(indices),
                                <<>>, less)
    IN [i \in 1..Len(s) |-> s[sorted[i]]]

\* "if len(recommendations) > 3 { recommendations = recommendations[:3] }"
Top3(recommendations) ==
    IF Len(recommendations) > 3 THEN SubSeq(recommendations, 1, 3)
    ELSE recommendations

\* "return recommendations[i].Score < recommendations[j].Score"
lessByScore(recommendations) ==
    [i \in DOMAIN recommendations |->
        [j \in DOMAIN recommendations |->
            float64Less(recommendations[i].Score, recommendations[j].Score)]]

\* the "for _, ch := range availableChannels" loop of getBest24GHzChannels
candidates24(analysis, order) ==
    [i \in DOMAIN availableChannels |->
        LET ch == availableChannels[i]
            freq == analyzer_channelToFrequency(ch)
            score == calculate24GHzScore(ch, freq, analysis, order)
        IN [Channel |-> ch, Frequency |-> freq, Score |-> score,
            InterferenceLevel |-> getInterferenceLevel(score),
            Reasoning |-> getReasoning24GHz(ch, analysis),
            FrequencyGap |-> calculateFrequencyGap(freq, analysis)]]

\* the "for _, ch := range allChannels5G" loop of getBest5GHzChannels
candidates5(analysis, order) ==
    [i \in DOMAIN getAllAvailable5GHzChannels |->
        LET ch == getAllAvailable5GHzChannels[i]
            freq == analyzer_channelToFrequency(ch)
            score == calculate5GHzScore(ch, freq, analysis, order)
        IN [Channel |-> ch, Frequency |-> freq, Score |-> score,
            InterferenceLevel |-> getInterferenceLevel(score),
            Reasoning |-> getReasoning5GHz(ch, analysis),
            FrequencyGap |-> calculateFrequencyGap(freq, analysis)]]

\* getBest24GHzChannels without the sort before the truncation
getBest24GHzChannels_Unsorted(analysis, rule, order) ==
    Top3(candidates24(analysis, order))

\* analyzer.getBest24GHzChannels (SignalImpact, which nothing reads, left
\* out); order is the order its score loops visit the map in
getBest24GHzChannels(analysis, rule, order) ==
    LET recommendations == candidates24(analysis, order)
    IN Top3(SortSlice(recommendations, lessByScore(recommendations), rule))

\* analyzer.getBest5GHzChannels
getBest5GHzChannels(analysis, rule, order) ==
    LET recommendations == candidates5(analysis, order)
    IN Top3(SortSlice(recommendations, lessByScore(recommendations), rule))

\* The iteration orders one call of GetChannelRecommendations can meet, one
\* per landscape map; all score loops over a map see the same one here.
RecommendationOrders(networks) ==
    [o24 : IterationOrders(analyzeChannelLandscape(networks, "2.4G")),
     o5 : IterationOrders(analyzeChannelLandscape(networks, "5G"))]

\* analyzer.GetChannelRecommendations
GetChannelRecommendations(networks, rule, orders) ==
    [band \in {"2.4G", "5G"} |->
        IF band = "2.4G"
        THEN getBest24GHzChannels(analyzeChannelLandscape(networks, "2.4G"),
                                  rule, orders.o24)
        ELSE getBest5GHzChannels(analyzeChannelLandscape(networks, "5G"),
                                 rule, orders.o5)]

(***************************************************************************)
(* Tool outputs the scans are run on                                       *)
(***************************************************************************)
NmcliLines ==
    { NmcliLine(TRUE, 0, "", BadTok, BadTok, BadTok),            \* blank
      NmcliLine(FALSE, 3, "a", Num(1), Num(-45), BadTok),        \* 3 parts
      NmcliLine(FALSE, 7, "--", Num(1), Num(-45), Num(2412)),    \* hidden
      NmcliLine(FALSE, 7, "a", BadTok, Num(-45), Num(2412)),
      NmcliLine(FALSE, 7, "a", Num(1), BadTok, Num(2412)),
      NmcliLine(FALSE, 7, "a", Num(1), Num(-45), BadTok),        \* "2412 MHz"
      NmcliLine(FALSE, 7, "a", Num(1), Num(-85), Num(2412)),
      NmcliLine(FALSE, 7, "b", Num(1), Num(-45), Num(2412)),
      NmcliLine(FALSE, 7, "c", Num(3), Num(-65), Num(2422)),
      NmcliLine(FALSE, 7, "d", Num(36), Num(-85), Num(5180)),
      NmcliLine(FALSE, 7, "e", Num(0), Num(-45), Num(2412)),
      NmcliLine(FALSE, 4, "f", Num(1), Num(-45), Num(5955)) }   \* 6 GHz

IwlistCells ==
    { IwlistCell("", Num(1), "dbm", Num(-85), TRUE, 2412),
      IwlistCell("a", BadTok, "dbm", Num(-85), TRUE, 2412),
      IwlistCell("e", Num(0), "dbm", Num(-45), FALSE, 0),
      IwlistCell("a", Num(1), "dbm", Num(-85), FALSE, 0),
      IwlistCell("b", Num(1), "ratio", Num(70), TRUE, 2412),
      IwlistCell("c", Num(3), "none", BadTok, TRUE, 2422),
      IwlistCell("c", Num(3), "dbm", BadTok, TRUE, 2422),
      IwlistCell("c", Num(3), "empty", BadTok, TRUE, 2422),
      IwlistCell("d", Num(36), "dbm", Num(-85), TRUE, 5180),
      IwlistCell("d", Num(36), "dbm", Num(-65), FALSE, 0),
      IwlistCell("f", Num(1), "dbm", Num(-45), TRUE, 5955) }    \* 6 GHz

AirportHeader == AirportLine(FALSE, 7, "SSID", BadTok, BadTok)

AirportLines ==
    { AirportLine(TRUE, 0, "", BadTok, BadTok),
      AirportLine(FALSE, 2, "a", BadTok, BadTok),
      AirportLine(FALSE, 7, "a", BadTok, Num(-45)),              \* "36,+1"
      AirportLine(FALSE, 7, "a", Num(1), BadTok),
      AirportLine(FALSE, 7, "e", Num(0), Num(-45)),
      AirportLine(FALSE, 7, "a", Num(1), Num(-85)),
      AirportLine(FALSE, 7, "b", Num(1), Num(-45)),
      AirportLine(FALSE, 7, "c", Num(3), Num(-65)),
      AirportLine(FALSE, 7, "d", Num(36), Num(-85)),
      AirportLine(FALSE, 3, "f", Num(149), Num(-30)) }

\* the property lines that follow one network name line
ProfilerProperties ==
    { <<>>,
      <<OtherLine, ChannelLine(Num(1), "20MHz"), SignalLine(Num(-85), 5)>>,
      <<ChannelLine(Num(1), ""), SignalLine(Num(-45), 5)>>,
      <<ChannelLine(Num(3), "20MHz"), SignalLine(Num(-65), 2)>>,
      <<ChannelLine(Num(36), "80MHz"), SignalLine(Num(-85), 5)>>,
      <<SignalLine(Num(-85), 5), ChannelLine(Num(36), "80MHz")>>,
      <<ChannelLine(Num(0), "20MHz"), SignalLine(Num(-45), 5)>>,
      <<ChannelLine(BadTok, "20MHz"), SignalLine(Num(-45), 5)>>,
      <<ChannelLine(Num(1), "20MHz"), ChannelLine(Num(149), "40MHz"),
        SignalLine(BadTok, 5)>> }

\* a network name line and its property lines
ProfilerBlocks ==
    {<<NameLine(n)>> \o ps : n \in {"a"}, ps \in ProfilerProperties}
    \cup {<<NameLine("")>> \o <<ChannelLine(Num(1), "20MHz"), SignalLine(Num(-85), 5)>>}

RECURSIVE Flatten(_)
Flatten(ss) == IF ss = <<>> THEN <<>> ELSE Head(ss) \o Flatten(Tail(ss))

NmcliOutputs == SeqsUpTo(NmcliLines, MaxLines)
IwlistOutputs == SeqsUpTo(IwlistCells, MaxLines)
AirportOutputs ==
    SeqsUpTo(AirportLines, MaxLines)
    \cup {<<AirportHeader>> \o ls : ls \in SeqsUpTo(AirportLines, MaxLines)}
\* with and without the "Other Local Wi-Fi Networks:" section line
ProfilerOutputs ==
    {Flatten(bs) : bs \in SeqsUpTo(ProfilerBlocks, MaxLines)}
    \cup {<<OtherLine, SectionLine>> \o Flatten(bs) :
            bs \in SeqsUpTo(ProfilerBlocks, MaxLines)}

(***************************************************************************)
(* The scans.  An external command either fails or prints one of the       *)
(* outputs above; a scan's outcome records the commands it ran, in order,  *)
(* and for each whether cmd.Output() returned an error.                    *)
(***************************************************************************)
Ran(command) == [command |-> command, failed |-> FALSE]
Failed(command) == [command |-> command, failed |-> TRUE]

\* a scan that returned the parsed networks, or panicked in the parse
ScanOk(parsed, commands) ==
    [err |-> FALSE, panic |-> parsed.panic, networks |-> parsed.networks,
     channelMap |-> parsed.channelMap, invoked |-> commands]

\* a scan that returned "nil, err"
ScanFailed(commands) ==
    [err |-> TRUE, panic |-> FALSE, networks |-> <<>>, channelMap |-> EmptyMap,
     invoked |-> commands]

\* LinuxScanner.scanWithNmcli
scanWithNmcli ==
    {ScanFailed(<<Failed("nmcli")>>)}
    \cup {ScanOk(parseNmcliOutput(o), <<Ran("nmcli")>>) : o \in NmcliOutputs}

\* LinuxScanner.scanWithIwlist: findWiFiInterface runs "iw dev" and fails when
\* the command fails or its output names no interface
scanWithIwlist ==
    {ScanFailed(<<Failed("iw")>>), ScanFailed(<<Ran("iw")>>),
     ScanFailed(<<Ran("iw"), Failed("iwlist")>>)}
    \cup {ScanOk(parseIwlistOutput(o), <<Ran("iw"), Ran("iwlist")>>) :
            o \in IwlistOutputs}

\* outcome r of a second command sequence, run after the commands before
After(commands, r) == [r EXCEPT !.invoked = commands \o @]

\* LinuxScanner.Scan falling back to iwlist also when nmcli found no network
LinuxScan_EmptyFallsBack ==
    {r \in scanWithNmcli : ~r.err /\ r.networks # <<>>}
    \cup {After(<<Ran("nmcli")>>, r) : r \in scanWithIwlist}
    \cup {After(<<Failed("nmcli")>>, r) : r \in scanWithIwlist}

\* LinuxScanner.Scan
LinuxScan ==
    {r \in scanWithNmcli : ~r.err}
    \cup {After(<<Failed("nmcli")>>, r) : r \in scanWithIwlist}

\* MacOSScanner.scanWithSystemProfiler
scanWithSystemProfiler ==
    {ScanFailed(<<Failed("system_profiler")>>)}
    \cup {ScanOk(parseSystemProfilerOutput(o), <<Ran("system_profiler")>>) :
            o \in ProfilerOutputs}

\* MacOSScanner.Scan (parseAirportOutput never returns an error)
MacOSScan ==
    {ScanOk(parseAirportOutput(o), <<Ran("airport")>>) : o \in AirportOutputs}
    \cup {After(<<Failed("airport")>>, r) : r \in scanWithSystemProfiler}

OperatingSystems == {"linux", "darwin", "windows"}

\* scanner.ScanWiFiNetworks: the switch on runtime.GOOS
ScanWiFiNetworks(goos) ==
    IF goos = "linux" THEN LinuxScan
    ELSE IF goos = "darwin" THEN MacOSScan
    ELSE {ScanFailed(<<>>)}

(***************************************************************************)
(* State                                                                   *)
(***************************************************************************)
VARIABLES
    pc,          \* where main is
    goos,        \* runtime.GOOS
    tieRule,     \* how this build's sort.Slice orders equal keys
    networks,    \* main's networks of the current cycle
    channelMap,  \* the channelMap local to the parse function of the last scan
    invoked,     \* the commands the last scan ran
    shown,       \* the rows DisplayResults printed in the current cycle
    recs,        \* the recommendations DisplayRecommendations printed in it
    call         \* a direct call of one function: its arguments and result

vars == <<pc, goos, tieRule, networks, channelMap, invoked, shown, recs, call>>

NoCall == [fn |-> "none"]
NoRecs == [band \in {"2.4G", "5G"} |-> <<>>]

TypeOK ==
    /\ pc \in {"start", "fatal", "panic", "channelinfo", "loop", "backoff",
               "sort", "display", "recommend", "sleep"}
    /\ goos \in OperatingSystems
    /\ tieRule \in TieRules

Init ==
    /\ pc = "start"
    /\ goos \in OperatingSystems
    /\ tieRule \in TieRules
    /\ networks = <<>>
    /\ channelMap = EmptyMap
    /\ invoked = <<>>
    /\ shown = <<>>
    /\ recs = NoRecs
    /\ call = NoCall

(***************************************************************************)
(* main.go                                                                 *)
(***************************************************************************)
\* lessByCongestionScore with the comparison turned round
lessByCongestionScore_Descending(nets) ==
    [i \in DOMAIN nets |->
        [j \in DOMAIN nets |-> nets[i].CongestionScore > nets[j].CongestionScore]]

\* "return networks[i].CongestionScore < networks[j].CongestionScore"
lessByCongestionScore(nets) ==
    [i \in DOMAIN nets |->
        [j \in DOMAIN nets |-> nets[i].CongestionScore < nets[j].CongestionScore]]

\* InitialScan entering the loop after a scan that returned an error
InitialScan_Retry ==
    /\ pc = "start"
    /\ \E r \in ScanWiFiNetworks(goos) :
          /\ networks' = r.networks
          /\ channelMap' = r.channelMap
          /\ invoked' = r.invoked
          /\ pc' = IF r.panic THEN "panic"
                   ELSE IF r.err THEN "loop" ELSE "channelinfo"
    /\ UNCHANGED <<goos, tieRule, shown, recs, call>>

\* main.go 19-24: the scan before the loop; log.Fatalf ends the program, and
\* so does a panic no function recovers from
InitialScan ==
    /\ pc = "start"
    /\ \E r \in ScanWiFiNetworks(goos) :
          /\ networks' = r.networks
          /\ channelMap' = r.channelMap
          /\ invoked' = r.invoked
          /\ pc' = IF r.panic THEN "panic"
                   ELSE IF r.err THEN "fatal" ELSE "channelinfo"
    /\ UNCHANGED <<goos, tieRule, shown, recs, call>>

\* main.go 27-39: DisplayChannelInfo when networks were found, then the loop
ShowChannelInfo ==
    /\ pc = "channelinfo"
    /\ pc' = "loop"
    /\ networks' = <<>>
    /\ channelMap' = EmptyMap
    /\ invoked' = <<>>
    /\ UNCHANGED <<goos, tieRule, shown, recs, call>>

\* main.go 42-47: the scan of a cycle; on error log, sleep 5 s, continue
LoopScan ==
    /\ pc = "loop"
    /\ \E r \in ScanWiFiNetworks(goos) :
          /\ networks' = r.networks
          /\ channelMap' = r.channelMap
          /\ invoked' = r.invoked
          /\ pc' = IF r.panic THEN "panic"
                   ELSE IF r.err THEN "backoff" ELSE "sort"
    /\ shown' = <<>>
    /\ recs' = NoRecs
    /\ UNCHANGED <<goos, tieRule, call>>

\* Backoff going on to the display calls instead of the next iteration
Backoff_ShowStale ==
    /\ pc = "backoff"
    /\ pc' = "display"
    /\ UNCHANGED <<goos, tieRule, networks, channelMap, invoked, shown, recs, call>>

\* main.go 45-46: time.Sleep(5 * time.Second); continue
Backoff ==
    /\ pc = "backoff"
    /\ pc' = "loop"
    /\ UNCHANGED <<goos, tieRule, networks, channelMap, invoked, shown, recs, call>>

\* main.go 50-52: sort.Slice by CongestionScore
SortNetworks ==
    /\ pc = "sort"
    /\ networks' = SortSlice(networks, lessByCongestionScore(networks), tieRule)
    /\ pc' = "display"
    /\ UNCHANGED <<goos, tieRule, channelMap, invoked, shown, recs, call>>

\* a row of the table of display.DisplayResults
ResultRow(net) ==
    [SSID |-> net.SSID, Band |-> net.Band, Channel |-> net.Channel,
     Signal |-> net.Signal,
     congestionLevel |-> GetCongestionLevel(net.CongestionScore),
     Frequency |-> net.Frequency]

\* main.go 66: display.DisplayResults(displayNetworks)
DisplayResults ==
    /\ pc = "display"
    /\ shown' = [i \in DOMAIN networks |-> ResultRow(networks[i])]
    /\ pc' = "recommend"
    /\ UNCHANGED <<goos, tieRule, networks, channelMap, invoked, recs, call>>

\* main.go 67: display.DisplayRecommendations(analyzerNetworks)
DisplayRecommendations ==
    /\ pc = "recommend"
    /\ \E orders \in RecommendationOrders(networks) :
          recs' = GetChannelRecommendations(networks, tieRule, orders)
    /\ pc' = "sleep"
    /\ UNCHANGED <<goos, tieRule, networks, channelMap, invoked, shown, call>>

\* main.go 69: time.Sleep(10 * time.Second), then the next iteration
Sleep ==
    /\ pc = "sleep"
    /\ pc' = "loop"
    /\ UNCHANGED <<goos, tieRule, networks, channelMap, invoked, shown, recs, call>>

Next ==
    \/ InitialScan
    \/ ShowChannelInfo
    \/ LoopScan
    \/ Backoff
    \/ SortNetworks
    \/ DisplayResults
    \/ DisplayRecommendations
    \/ Sleep

Spec == Init /\ [][Next]_vars

\* the positions of main at which it has a step to take
Positions ==
    {"start", "channelinfo", "loop", "backoff", "sort", "display", "recommend",
     "sleep"}

\* main leaves position p: the call it is in at p returns.  At every
\* position some step of Next is possible, and every step changes pc, so a
\* step that leaves p is the step of Next at p.
Leaves(p) == pc = p /\ pc' \in (Positions \cup {"fatal", "panic"}) \ {p}

\* main is a sequential program: while it has a step to take it takes one
\* (every external command it waits for returns, every sleep ends)
LiveSpec == Spec /\ \A p \in Positions : WF_pc(Leaves(p))

(***************************************************************************)
(* Direct calls of the analyzer's and the display's functions, on          *)
(* arguments no scan need produce: one call per behaviour.                 *)
(***************************************************************************)
\* analyzer.NetworkInfo values given to CalculateCongestionScore
ProbeNetworks ==
    [Band : {"2.4G", "5G"}, Channel : {1, 4, 6},
     Signal : {-85, -80, -70, -69, -50, -49}, StationCount : {0, 1}]

\* the channels a hand-built occupancy map may hold
ProbeMapChannels == {1, 3, 6}

\* occupancy maps: any subset of the channels, 1..MaxCount networks on each
ProbeEntries ==
    UNION {[D -> 1..MaxCount] : D \in SUBSET ProbeMapChannels}

EntriesOf(counts) ==
    [c \in DOMAIN counts |->
        [Channel |-> c, NetworkCount |-> counts[c], StrongestRSSI |-> -80]]

\* observations given to GetChannelRecommendations: 2.4G channels 1, 3 and 14,
\* 5G channels 36 and 149, and a 5G label on channel number 1 (the nmcli path
\* takes the band from the reported frequency, not from the channel)
Observations ==
    {[Band |-> bc[1], Channel |-> bc[2], Signal |-> signal, StationCount |-> 1,
      ChannelWidth |-> "Unknown"] :
        bc \in {<<"2.4G", 1>>, <<"2.4G", 3>>, <<"2.4G", 14>>,
                <<"5G", 36>>, <<"5G", 149>>, <<"5G", 1>>},
        signal \in {-85, -45}}

\* a crowded 2.4G band: one network on each of the channels 4 and 7 and one
\* on channel 11 or 12
CrowdedLists ==
    {[i \in 1..3 |->
        [Band |-> "2.4G", Channel |-> <<4, 7, third>>[i], Signal |-> signals[i],
         StationCount |-> 1, ChannelWidth |-> "Unknown"]] :
        third \in {11, 12}, signals \in [1..3 -> {-85, -70, -30}]}

InitFn ==
    /\ pc = "start"
    /\ goos = "linux"
    /\ tieRule \in TieRules
    /\ networks = <<>>
    /\ channelMap = EmptyMap
    /\ invoked = <<>>
    /\ shown = <<>>
    /\ recs = NoRecs
    /\ call = NoCall

mainVars == <<pc, goos, tieRule, networks, channelMap, invoked, shown, recs>>

CallCalculateCongestionScore ==
    /\ call = NoCall
    /\ \E network \in ProbeNetworks, counts \in ProbeEntries,
          type \in {AnalyzerMapType, ScannerMapType} :
          call' = [fn |-> "CalculateCongestionScore",
                   network |-> network,
                   channelMap |-> TypedMap(type, EntriesOf(counts)),
                   ret |-> CalculateCongestionScore(
                              network, TypedMap(type, EntriesOf(counts)))]
    /\ UNCHANGED mainVars

CallGetCongestionLevel ==
    /\ call = NoCall
    /\ \E score \in -MaxScore..MaxScore :
          call' = [fn |-> "GetCongestionLevel", score |-> score,
                   ret |-> GetCongestionLevel(score)]
    /\ UNCHANGED mainVars

CallChannelToFrequency ==
    /\ call = NoCall
    /\ \E channel \in -MaxChannel..MaxChannel :
          call' = [fn |-> "channelToFrequency", channel |-> channel,
                   analyzer |-> analyzer_channelToFrequency(channel),
                   scanner |-> scanner_channelToFrequency(channel)]
    /\ UNCHANGED mainVars

CallGetChannelRecommendations ==
    /\ call = NoCall
    /\ \E nets \in SeqsUpTo(Observations, MaxNets) \cup CrowdedLists :
          \E orders \in RecommendationOrders(nets) :
              call' = [fn |-> "GetChannelRecommendations", networks |-> nets,
                       orders |-> orders,
                       ret |-> GetChannelRecommendations(nets, tieRule, orders)]
    /\ UNCHANGED mainVars

\* signal strengths on both sides of every threshold the score functions
\* compare with (-40, -60, -80)
ProbeRSSI == {-80, -60, -50, -40, -30}

\* occupied channels of a hand-built 2.4G landscape: 15 and 20 MHz apart from
\* candidates on either side, and channel 14, 12 MHz above channel 13
ProbeChannels24 == {3, 6, 14}

\* occupied channels of a hand-built 5G landscape: a UNII-1 and a DFS channel,
\* and the channel number 39 of a wide network, 15 MHz above channel 36
ProbeChannels5 == {36, 39, 52}

\* the NetworkAnalysis analyzeChannelLandscape stores for n networks on
\* channel ch, the strongest of them at rssi
ProbeEntry(ch, n, rssi) ==
    [Channel |-> ch, Frequency |-> analyzer_channelToFrequency(ch),
     Signal |-> rssi, ChannelWidth |-> "20MHz", NetworkCount |-> n,
     StrongestRSSI |-> rssi]

\* landscapes over all but one of the channels at most: 1..MaxCount networks
\* on each occupied channel
ProbeLandscapes(channels) ==
    UNION {{[ch \in D |-> ProbeEntry(ch, e[ch][1], e[ch][2])] :
                e \in [D -> (1..MaxCount) \X ProbeRSSI]} :
           D \in SUBSET channels \ {channels}}

CallCalculate24GHzScore ==
    /\ call = NoCall
    /\ \E analysis \in ProbeLandscapes(ProbeChannels24) :
          \E order \in IterationOrders(analysis), i \in DOMAIN availableChannels :
              LET ch == availableChannels[i]
                  freq == analyzer_channelToFrequency(ch)
              IN call' = [fn |-> "calculate24GHzScore", channel |-> ch,
                          frequency |-> freq, analysis |-> analysis,
                          order |-> order,
                          ret |-> calculate24GHzScore(ch, freq, analysis, order)]
    /\ UNCHANGED mainVars

CallCalculate5GHzScore ==
    /\ call = NoCall
    /\ \E analysis \in ProbeLandscapes(ProbeChannels5) :
          \E order \in IterationOrders(analysis),
             i \in DOMAIN getAllAvailable5GHzChannels :
              LET ch == getAllAvailable5GHzChannels[i]
                  freq == analyzer_channelToFrequency(ch)
              IN call' = [fn |-> "calculate5GHzScore", channel |-> ch,
                          frequency |-> freq, analysis |-> analysis,
                          order |-> order,
                          ret |-> calculate5GHzScore(ch, freq, analysis, order)]
    /\ UNCHANGED mainVars

\* 2.4G landscapes with a single occupied channel
SingleChannelLandscapes ==
    {[ch \in {K} |-> ProbeEntry(K, n, rssi)] :
        K \in 1..14, n \in 1..MaxCount, rssi \in ProbeRSSI}

CallGetBest24GHzChannels ==
    /\ call = NoCall
    /\ \E analysis \in SingleChannelLandscapes :
          \E order \in IterationOrders(analysis) :
              call' = [fn |-> "getBest24GHzChannels", analysis |-> analysis,
                       order |-> order,
                       ret |-> getBest24GHzChannels(analysis, tieRule, order)]
    /\ UNCHANGED mainVars

\* scores handed to getInterferenceLevel directly: the whole numbers up to
\* MaxInterference and each of them plus 1/1.5, the distance factor at 5 MHz
ProbeScores ==
    {float64Add(float64FromInt(n), frac) :
        n \in 0..MaxInterference, frac \in {Zero64, distanceFactor(5)}}

CallGetInterferenceLevel ==
    /\ call = NoCall
    /\ \E score \in ProbeScores :
          call' = [fn |-> "getInterferenceLevel", score |-> score,
                   ret |-> getInterferenceLevel(score)]
    /\ UNCHANGED mainVars

NextFn ==
    \/ CallCalculateCongestionScore
    \/ CallGetCongestionLevel
    \/ CallChannelToFrequency
    \/ CallGetChannelRecommendations
    \/ CallCalculate24GHzScore
    \/ CallCalculate5GHzScore
    \/ CallGetBest24GHzChannels
    \/ CallGetInterferenceLevel

SpecFn == InitFn /\ [][NextFn]_vars

(***************************************************************************)
(* Properties                                                              *)
(***************************************************************************)
CongestionLevels == {"Low", "Medium", "High", "Very High"}

IsScoreCall == call.fn = "CalculateCongestionScore"

\* C1: every network a scanner parse path returns carries the occupancy-aware
\* score computed on the channel map of that same scan (own-channel count * 10,
\* on 2.4G 5 * the counts at offsets -2, -1, +1, +2, stations * 8, signal
\* penalty), never the occupancy-blind fallback value.
C1_ScannedScoreIsOccupancyAware ==
    \A i \in DOMAIN networks :
        networks[i].CongestionScore = OccupancyScore(networks[i], channelMap)

\* the count the formula of C2 reads: 0 for a channel the map does not hold
C2_count(entries, ch) ==
    IF ch \in DOMAIN entries THEN entries[ch].NetworkCount ELSE 0

\* the signal penalty p of C2
C2_p(signal) ==
    IF signal > -50 THEN 20
    ELSE IF -70 < signal /\ signal <= -50 THEN 10
    ELSE 0

\* the observations [ch1, -80, 1 station] and [ch6, -80, 1 station] of C2 and
\* the occupancy map of the scan of two networks on channel 1 and one on 6
C2_onCh1 == [Band |-> "2.4G", Channel |-> 1, Signal |-> -80, StationCount |-> 1]
C2_onCh6 == [Band |-> "2.4G", Channel |-> 6, Signal |-> -80, StationCount |-> 1]
C2_map == TypedMap(AnalyzerMapType, EntriesOf((1 :> 2) @@ (6 :> 1)))

\* C2: on a map of analyzer ChannelInfo entries CalculateCongestionScore
\* returns count(ch)*10 + (2.4G only) 5*(count(ch-2)+count(ch-1)+count(ch+1)
\* +count(ch+2)) + stations*8 + p, a channel without entry counting 0, a 5G
\* network unaffected by other channels; the three observations of the
\* example score 28, 28 and 18.
C2_CongestionFormula ==
    (IsScoreCall /\ call.channelMap.type = AnalyzerMapType) =>
        LET n == call.network
            e == call.channelMap.entries
            ch == n.Channel
        IN /\ call.ret =
                C2_count(e, ch) * 10
                + (IF n.Band = "2.4G"
                   THEN 5 * (C2_count(e, ch - 2) + C2_count(e, ch - 1)
                             + C2_count(e, ch + 1) + C2_count(e, ch + 2))
                   ELSE 0)
                + n.StationCount * 8 + C2_p(n.Signal)
           /\ n.Band = "5G" =>
                call.ret = C2_count(e, ch) * 10 + n.StationCount * 8 + C2_p(n.Signal)
           /\ (call.channelMap = C2_map /\ n = C2_onCh1) => call.ret = 28
           /\ (call.channelMap = C2_map /\ n = C2_onCh6) => call.ret = 18

\* the example of C2 was computed: a network on channel 1 scored 28
C2_Witness ==
    /\ IsScoreCall
    /\ call.channelMap = C2_map
    /\ call.network = C2_onCh1
    /\ call.ret = 28

\* the map of the call with the count on the network's own channel set to n
C3_withCount(n) ==
    [call.channelMap EXCEPT !.entries[call.network.Channel].NetworkCount = n]

\* C3: with band, signal, stations and all other counts equal, a larger
\* NetworkCount on the network's own channel never gives a smaller score.
C3_MonotoneInOwnChannelCount ==
    (IsScoreCall /\ call.network.Channel \in DOMAIN call.channelMap.entries) =>
        \A n \in 1..(MaxCount + 1) :
            n >= call.channelMap.entries[call.network.Channel].NetworkCount =>
                CalculateCongestionScore(call.network, C3_withCount(n)) >= call.ret

\* a call whose score strictly grows with the count on the own channel
C3_Witness ==
    /\ IsScoreCall
    /\ call.network.Channel \in DOMAIN call.channelMap.entries
    /\ call.channelMap.entries[call.network.Channel].NetworkCount = 1
    /\ CalculateCongestionScore(call.network, C3_withCount(2)) > call.ret

\* the case of C4: alone on its channel, nothing at offsets 1 and 2, -85 dBm,
\* no stations
C4_LoneWeakNetwork ==
    /\ IsScoreCall
    /\ call.network.Signal = -85
    /\ call.network.StationCount = 0
    /\ C2_count(call.channelMap.entries, call.network.Channel) = 1
    /\ \A i \in {-2, -1, 1, 2} :
          C2_count(call.channelMap.entries, call.network.Channel + i) = 0

\* C4: a network alone on its channel, with no networks at offsets +-1 and
\* +-2, at -85 dBm and with 0 stations scores at most 15 and is level Low.
C4_LoneWeakNetworkIsLow ==
    C4_LoneWeakNetwork =>
        (call.ret <= 15 /\ GetCongestionLevel(call.ret) = "Low")

\* the levels some network of some scan result is displayed with
C5_DisplayableLevels ==
    {GetCongestionLevel(r.networks[i].CongestionScore) :
        <<r, i>> \in UNION {{<<r, i>> : i \in DOMAIN r.networks} :
                             r \in ScanWiFiNetworks("linux")
                                   \cup ScanWiFiNetworks("darwin")}}

\* C5: each of the levels Low, Medium, High and Very High is displayed for
\* some network of some scan result.
C5_EveryLevelIsDisplayable ==
    \A level \in CongestionLevels : level \in C5_DisplayableLevels

\* Every row DisplayResults prints is High or Very High: a scanned score is
\* StationCount*8 + signal penalty + 25, which is 33 or more.
ShownLevelsAreHighOrVeryHigh ==
    \A i \in DOMAIN shown : shown[i].congestionLevel \in {"High", "Very High"}

\* C6: GetCongestionLevel maps every score to exactly one level: <= 15 Low,
\* 16..30 Medium, 31..50 High, above 50 Very High.
C6_CongestionLevelThresholds ==
    call.fn = "GetCongestionLevel" =>
        /\ call.ret \in CongestionLevels
        /\ (call.ret = "Low") <=> (call.score <= 15)
        /\ (call.ret = "Medium") <=> (15 < call.score /\ call.score <= 30)
        /\ (call.ret = "High") <=> (30 < call.score /\ call.score <= 50)
        /\ (call.ret = "Very High") <=> (call.score > 50)

\* the level of a score on a threshold was computed
C6_Witness ==
    /\ call.fn = "GetCongestionLevel"
    /\ call.score = 30
    /\ call.ret = "Medium"

\* the channel plan of C7
C7_frequency(ch) ==
    CASE ch \in 1..13 -> 2412 + 5 * (ch - 1)
      [] ch = 14 -> 2484
      [] ch \in 36..48 -> 5180 + 5 * (ch - 36)
      [] ch \in 52..64 -> 5260 + 5 * (ch - 52)
      [] ch \in 100..144 -> 5500 + 5 * (ch - 100)
      [] ch \in 149..165 -> 5745 + 5 * (ch - 149)
      [] ch \in 169..177 -> 5845 + 5 * (ch - 169)
      [] OTHER -> 2412

\* C7: channelToFrequency is the same total function in analyzer and scanner:
\* the channel plan above, 2412 for every other integer; 6 -> 2437,
\* 36 -> 5180, 149 -> 5745, 14 -> 2484.
C7_ChannelToFrequency ==
    call.fn = "channelToFrequency" =>
        /\ call.analyzer = C7_frequency(call.channel)
        /\ call.scanner = C7_frequency(call.channel)
        /\ call.analyzer = call.scanner
        /\ call.channel = 6 => call.scanner = 2437
        /\ call.channel = 36 => call.scanner = 5180
        /\ call.channel = 149 => call.scanner = 5745
        /\ call.channel = 14 => call.scanner = 2484
        /\ call.channel <= 0 => call.scanner = 2412

\* a UNII-4 channel was converted by both packages
C7_Witness ==
    /\ call.fn = "channelToFrequency"
    /\ call.channel = 173
    /\ call.analyzer = 5865
    /\ call.scanner = 5865

\* C8: the Frequency of every network a scanner path produces is
\* channelToFrequency of its Channel.
C8_FrequencyIsFunctionOfChannel ==
    \A i \in DOMAIN networks :
        networks[i].Frequency = scanner_channelToFrequency(networks[i].Channel)

\* C9: no scanner parse path returns a network with channel 0.
C9_NoChannelZeroReturned ==
    \A i \in DOMAIN networks : networks[i].Channel # 0

\* the recommendations of one band satisfy C10 for the candidates cands
C10_band(rs, cands) ==
    /\ Len(rs) = 3
    /\ \A i, j \in 1..Len(rs) : i # j => rs[i].Channel # rs[j].Channel
    /\ \A i \in 1..Len(rs) :
          \E k \in DOMAIN cands : cands[k].Channel = rs[i].Channel
                                  /\ cands[k].Score = rs[i].Score
    /\ \A i \in 1..(Len(rs) - 1) : float64Leq(rs[i].Score, rs[i + 1].Score)
    /\ \A k \in DOMAIN cands :
          (\A i \in 1..Len(rs) : rs[i].Channel # cands[k].Channel) =>
              float64Leq(rs[Len(rs)].Score, cands[k].Score)

\* C10: for any list of networks each band gets exactly 3 recommendations with
\* distinct channels out of the band's full regulatory set (1..13; the 28
\* UNII channels), in non-decreasing score order, no candidate left out
\* scoring below the third.
C10_ThreeBestPerBand ==
    call.fn = "GetChannelRecommendations" =>
        /\ DOMAIN call.ret = {"2.4G", "5G"}
        /\ C10_band(call.ret["2.4G"],
                    candidates24(analyzeChannelLandscape(call.networks, "2.4G"),
                                 call.orders.o24))
        /\ C10_band(call.ret["5G"],
                    candidates5(analyzeChannelLandscape(call.networks, "5G"),
                                call.orders.o5))
        /\ \A i \in 1..Len(call.ret["2.4G"]) : call.ret["2.4G"][i].Channel \in 1..13
        /\ \A i \in 1..Len(call.ret["5G"]) :
              call.ret["5G"][i].Channel \in
                  {36, 40, 44, 48, 52, 56, 60, 64, 100, 104, 108, 112, 116, 120,
                   124, 128, 132, 136, 140, 144, 149, 153, 157, 161, 165, 169,
                   173, 177}

\* recommendations were computed for a list with an occupied 2.4G channel 1,
\* and channel 1 was left out in favour of channels that were not observed
C10_Witness ==
    /\ call.fn = "GetChannelRecommendations"
    /\ Len(call.networks) = 2
    /\ \E i \in 1..Len(call.networks) :
          call.networks[i].Band = "2.4G" /\ call.networks[i].Channel = 1
    /\ Len(call.ret["2.4G"]) = 3
    /\ \A i \in 1..3 : call.ret["2.4G"][i].Channel # 1

\* units per 1.0 in which the formulas of C11 and C12 are evaluated exactly:
\* every w*10/(10 + d) and w*8/(10 + d) at a distance d that is a multiple of
\* 5 MHz is a whole number of them
SCALE == 2 * 9 * 5 * 7 * 11 * 13 * 17

RECURSIVE TotalOf(_, _)
\* the sum of f[k] over the keys k in S
TotalOf(f, S) ==
    IF S = {} THEN 0
    ELSE LET k == CHOOSE x \in S : TRUE
         IN f[k] + TotalOf(f, S \ {k})

\* a float64 score and a number of 1/SCALE units, both in units of 2^-10
\* rounded down, are at most one unit apart
CloseTo(score, exact) ==
    LET f == score[5] * 1024 + (score[4] \div 16)
        e == (exact \div SCALE) * 1024 + (((exact % SCALE) * 1024) \div SCALE)
    IN score # NaN64 /\ f - e \in -1..1

\* w of C11 and C12
C11_w(rssi) ==
    IF rssi > -40 THEN 20 ELSE IF rssi > -60 THEN 10 ELSE IF rssi > -80 THEN 5 ELSE 0

\* what the entry net adds to the score of a 2.4G candidate at frequency F
\* by C11, in 1/SCALE units
C11_term(F, net) ==
    LET d == abs(F - net.Frequency)
    IN IF d = 0
       THEN (net.NetworkCount * 50 + (IF net.StrongestRSSI > -60 THEN 30 ELSE 0)) * SCALE
       ELSE IF d <= 15
       THEN (30 - 2 * d) * net.NetworkCount * SCALE
            + ((C11_w(net.StrongestRSSI) * 10 * SCALE) \div (10 + d))
       ELSE 0

\* the 2.4G score of candidate C at frequency F by C11, in 1/SCALE units
C11_score(C, F, analysis) ==
    (IF C \in {1, 6, 11} THEN 0 ELSE 20 * SCALE)
    + TotalOf([k \in DOMAIN analysis |-> C11_term(F, analysis[k])], DOMAIN analysis)

\* C11: the 2.4GHz score of candidate C at frequency F is 0 if C is 1, 6 or
\* 11, else 20, plus for every landscape entry at distance d = |F - Fk|:
\* NetworkCount*50 (+30 when StrongestRSSI > -60) if d = 0; (30 - 2d) *
\* NetworkCount + w/(1 + d/10) if 0 < d <= 15, w = 20, 10, 5, 0 for
\* StrongestRSSI > -40, > -60, > -80, else; nothing if d > 15 (up to the
\* rounding of float64).  A lone entry 15 MHz away adds only w/2.5, a lone
\* entry 20 MHz or more away leaves exactly the base.
C11_Score24Formula ==
    call.fn = "calculate24GHzScore" =>
        LET base == IF call.channel \in {1, 6, 11} THEN 0 ELSE 20
            dist == [k \in DOMAIN call.analysis |->
                        abs(call.frequency - call.analysis[k].Frequency)]
        IN /\ CloseTo(call.ret, C11_score(call.channel, call.frequency, call.analysis))
           /\ (\A k \in DOMAIN dist : dist[k] = 15) =>
                 CloseTo(call.ret,
                         base * SCALE
                         + TotalOf([k \in DOMAIN dist |->
                                       (C11_w(call.analysis[k].StrongestRSSI) * 2 * SCALE)
                                       \div 5],
                                   DOMAIN dist))
           /\ (\A k \in DOMAIN dist : dist[k] >= 20) =>
                 call.ret = float64FromInt(base)

\* candidate 9 was scored against two strong networks on channel 6, 15 MHz
\* below it, and something on channel 14, 32 MHz above it: base 20 plus 20/2.5
C11_Witness ==
    /\ call.fn = "calculate24GHzScore"
    /\ call.channel = 9
    /\ DOMAIN call.analysis = {6, 14}
    /\ call.analysis[6].NetworkCount = 2
    /\ call.analysis[6].StrongestRSSI = -30
    /\ call.ret = float64FromInt(28)

\* what the entry net adds to the score of a 5G candidate at frequency F by
\* C12, in 1/SCALE units
C12_term(F, net) ==
    LET d == abs(F - net.Frequency)
    IN IF d = 0
       THEN (net.NetworkCount * 40 + (IF net.StrongestRSSI > -60 THEN 25 ELSE 0)) * SCALE
       ELSE IF d <= 80
       THEN (80 - d) * net.NetworkCount * (SCALE \div 10)
            + ((C11_w(net.StrongestRSSI) * 8 * SCALE) \div (10 + d))
       ELSE 0

\* the 5G score of candidate C at frequency F by C12, in 1/SCALE units
C12_score(C, F, analysis) ==
    (IF C \in 52..64 \/ C \in 100..144 THEN 10 * SCALE ELSE 0)
    + TotalOf([k \in DOMAIN analysis |-> C12_term(F, analysis[k])], DOMAIN analysis)

\* C12: the 5GHz score of candidate C at frequency F is 10 if C is a DFS
\* channel (52..64, 100..144), else 0, plus for every landscape entry at
\* distance d = |F - Fk|: NetworkCount*40 (+25 when StrongestRSSI > -60) if
\* d = 0; ((80 - d)/10)*NetworkCount + 0.8*w/(1 + d/10) if 0 < d <= 80, w as
\* in the 2.4GHz formula; nothing if d > 80 (up to the rounding of float64).
C12_Score5Formula ==
    call.fn = "calculate5GHzScore" =>
        /\ CloseTo(call.ret, C12_score(call.channel, call.frequency, call.analysis))
        /\ (\A k \in DOMAIN call.analysis :
               abs(call.frequency - call.analysis[k].Frequency) > 80) =>
              call.ret = float64FromInt(IF isDFS(call.channel) THEN 10 ELSE 0)

\* DFS candidate 52 was scored against strong networks on channel 36, 80 MHz
\* below it, and on channel 39, 65 MHz below it
C12_Witness ==
    /\ call.fn = "calculate5GHzScore"
    /\ call.channel = 52
    /\ DOMAIN call.analysis = {36, 39}
    /\ \A k \in {36, 39} : call.analysis[k].StrongestRSSI = -30
    /\ call.analysis[39].NetworkCount = 2
    /\ float64Less(float64FromInt(10 + 3), call.ret)

\* the recommendations rs are three, each with score 0, gap 0 and level
\* Minimal
C13_allClear(rs) ==
    /\ Len(rs) = 3
    /\ \A i \in 1..Len(rs) :
          /\ rs[i].Score = Zero64
          /\ rs[i].FrequencyGap = 0
          /\ rs[i].InterferenceLevel = "Minimal"

\* C13: with no observation in a band GetChannelRecommendations returns for
\* 2.4GHz exactly the channels 1, 6 and 11 and for 5GHz three distinct
\* non-DFS channels, every one with score 0, FrequencyGap 0 and level Minimal.
C13_EmptyBand ==
    call.fn = "GetChannelRecommendations" =>
        /\ (\A i \in DOMAIN call.networks : call.networks[i].Band # "2.4G") =>
              /\ C13_allClear(call.ret["2.4G"])
              /\ {call.ret["2.4G"][i].Channel : i \in 1..3} = {1, 6, 11}
        /\ (\A i \in DOMAIN call.networks : call.networks[i].Band # "5G") =>
              /\ C13_allClear(call.ret["5G"])
              /\ Cardinality({call.ret["5G"][i].Channel : i \in 1..3}) = 3
              /\ \A i \in 1..3 :
                    LET ch == call.ret["5G"][i].Channel
                    IN ch \notin 52..64 /\ ch \notin 100..144

\* recommendations were computed for a list with two 5G networks and no 2.4G
\* network, and for 2.4G channel 11 came back
C13_Witness ==
    /\ call.fn = "GetChannelRecommendations"
    /\ Len(call.networks) = 2
    /\ \A i \in DOMAIN call.networks : call.networks[i].Band = "5G"
    /\ \E i \in 1..3 : call.ret["2.4G"][i].Channel = 11

\* the score getBest24GHzChannels computes for candidate ch in the call
C14_scoreOf(ch) ==
    calculate24GHzScore(ch, analyzer_channelToFrequency(ch), call.analysis, call.order)

\* C14: when all 2.4GHz networks sit on one channel K of 1..13 (any count,
\* any signal), candidate K scores strictly higher than every other 2.4GHz
\* candidate and is not among the three returned; with one network on
\* channel 6 at -50 dBm channel 6 scores higher than channels 1 and 11.
C14_OccupiedChannelScoresWorst ==
    (call.fn = "getBest24GHzChannels" /\ DOMAIN call.analysis \subseteq 1..13) =>
        \A K \in DOMAIN call.analysis :
            /\ \A ch \in 1..13 : ch # K => float64Less(C14_scoreOf(ch), C14_scoreOf(K))
            /\ \A i \in DOMAIN call.ret : call.ret[i].Channel # K
            /\ (K = 6 /\ call.analysis[K].NetworkCount = 1
                /\ call.analysis[K].StrongestRSSI = -50) =>
                  /\ float64Less(C14_scoreOf(1), C14_scoreOf(6))
                  /\ float64Less(C14_scoreOf(11), C14_scoreOf(6))
                  /\ C14_scoreOf(6) = float64FromInt(80)

\* the best 2.4G channels were computed for one network on channel 6 at
\* -50 dBm, and channels 1 and 11 were among them
C14_Witness ==
    /\ call.fn = "getBest24GHzChannels"
    /\ DOMAIN call.analysis = {6}
    /\ call.analysis[6].NetworkCount = 1
    /\ call.analysis[6].StrongestRSSI = -50
    /\ {1, 11} \subseteq {call.ret[i].Channel : i \in DOMAIN call.ret}

\* a float64 of the model that is a number and not below 0
C15_nonNegative(score) == score # NaN64 /\ float64Leq(Zero64, score)

\* C15: every recommendation score is >= 0, for every landscape and every
\* candidate of either band, and so is everything a landscape entry adds to
\* a score.
C15_ScoresNonNegative ==
    /\ call.fn = "calculate24GHzScore" =>
          /\ C15_nonNegative(call.ret)
          /\ \A k \in DOMAIN call.analysis :
                C15_nonNegative(contribution24(Zero64, call.frequency, call.analysis[k]))
    /\ call.fn = "calculate5GHzScore" =>
          /\ C15_nonNegative(call.ret)
          /\ \A k \in DOMAIN call.analysis :
                C15_nonNegative(contribution5(Zero64, call.frequency, call.analysis[k]))
    /\ call.fn = "getBest24GHzChannels" =>
          \A i \in DOMAIN call.ret : C15_nonNegative(call.ret[i].Score)
    /\ call.fn = "GetChannelRecommendations" =>
          \A band \in DOMAIN call.ret :
              \A i \in DOMAIN call.ret[band] : C15_nonNegative(call.ret[band][i].Score)

\* candidate 10 was scored against three weak networks on channel 6, 20 MHz
\* below it: nothing was added to its base of 20
C15_Witness ==
    /\ call.fn = "calculate24GHzScore"
    /\ call.channel = 10
    /\ DOMAIN call.analysis = {6}
    /\ call.analysis[6].NetworkCount = 3
    /\ call.analysis[6].StrongestRSSI = -80
    /\ call.ret = float64FromInt(20)

\* C16: two calls of CalculateCongestionScore or of GetChannelRecommendations
\* with the identical observation list return the identical output (channels,
\* order, scores, levels, gaps, reasoning), whatever the order in which the
\* landscape maps are iterated.
C16_Deterministic ==
    /\ call.fn = "GetChannelRecommendations" =>
          \A orders \in RecommendationOrders(call.networks) :
              GetChannelRecommendations(call.networks, tieRule, orders) = call.ret
    /\ call.fn = "CalculateCongestionScore" =>
          CalculateCongestionScore(call.network, call.channelMap) = call.ret

\* the float64 score is at most the whole number n
C17_atMost(score, n) ==
    score[5] < n \/ (score[5] = n /\ \A i \in 1..4 : score[i] = 0)

\* the level of C17 for a score
C17_level(score) ==
    IF C17_atMost(score, 20) THEN "Minimal"
    ELSE IF C17_atMost(score, 50) THEN "Low"
    ELSE IF C17_atMost(score, 100) THEN "Moderate"
    ELSE IF C17_atMost(score, 200) THEN "High"
    ELSE "Very High"

\* C17: the InterferenceLevel of a recommendation is determined by its score
\* alone, with the same thresholds in both bands: Minimal up to 20, Low up to
\* 50, Moderate up to 100, High up to 200, Very High above.
C17_InterferenceLevelThresholds ==
    /\ call.fn = "getInterferenceLevel" => call.ret = C17_level(call.score)
    /\ call.fn = "GetChannelRecommendations" =>
          \A band \in DOMAIN call.ret :
              \A i \in DOMAIN call.ret[band] :
                  call.ret[band][i].InterferenceLevel = C17_level(call.ret[band][i].Score)
    /\ call.fn = "getBest24GHzChannels" =>
          \A i \in DOMAIN call.ret :
              call.ret[i].InterferenceLevel = C17_level(call.ret[i].Score)

\* the level of the score 200 was asked for, and was High
C17_Witness ==
    /\ call.fn = "getInterferenceLevel"
    /\ call.score = float64FromInt(200)
    /\ call.ret = "High"

\* the distances from frequency F to the landscape entries at another
\* frequency
C18_distances(F, analysis) ==
    {abs(F - analysis[k].Frequency) : k \in DOMAIN analysis} \ {0}

\* the FrequencyGap of C18: the least of the distances, 0 when there is none
C18_gap(F, analysis) ==
    IF C18_distances(F, analysis) = {} THEN 0
    ELSE CHOOSE g \in C18_distances(F, analysis) :
            \A h \in C18_distances(F, analysis) : g <= h

\* C18: the FrequencyGap of a candidate at frequency F is the minimum of
\* |F - Fk| over the band's landscape entries with Fk # F, and it is 0 exactly
\* when the landscape has no entry at a frequency other than F.
C18_FrequencyGapIsMinimum ==
    call.fn = "GetChannelRecommendations" =>
        \A band \in DOMAIN call.ret :
            \A i \in DOMAIN call.ret[band] :
                LET rec == call.ret[band][i]
                    analysis == analyzeChannelLandscape(call.networks, band)
                IN /\ rec.FrequencyGap = C18_gap(rec.Frequency, analysis)
                   /\ rec.FrequencyGap = 0 <=> C18_distances(rec.Frequency, analysis) = {}

\* the channel widths of C19
C19_widths == {"20MHz", "40MHz", "80MHz"}

\* C19: the recommendation accounts for the channel width of the observed
\* networks: there are two observation lists that differ only in the channel
\* width of one network for which GetChannelRecommendations returns different
\* scores or a different ranking.
C19_WidthChangesRecommendation ==
    \E nets \in SeqsUpTo(Observations, MaxNets) :
        \E i \in DOMAIN nets, width \in C19_widths :
            \E orders \in RecommendationOrders(nets) :
                GetChannelRecommendations([nets EXCEPT ![i].ChannelWidth = width],
                                          tieRule, orders)
                # GetChannelRecommendations(nets, tieRule, orders)

\* C20: 5GHz scoring weighs interference lower than 2.4GHz scoring: for every
\* count n >= 1, strongest signal S and distance d with 0 <= d <= 15, what
\* one landscape entry (n, S) at distance d adds to a 5GHz candidate's score
\* is at most what the same entry at the same distance adds to a 2.4GHz
\* candidate's score.
C20_5GWeighsLower ==
    call.fn = "calculate5GHzScore" =>
        \A k \in DOMAIN call.analysis :
            abs(call.frequency - call.analysis[k].Frequency) <= 15 =>
                float64Leq(contribution5(Zero64, call.frequency, call.analysis[k]),
                           contribution24(Zero64, call.frequency, call.analysis[k]))

\* a step of main that is a call of scanner.ScanWiFiNetworks on a supported
\* system: it runs the first scan command of the system and leaves main at
\* the check of the error
IsScanStep ==
    /\ pc' \in {"sort", "backoff", "panic"}
    /\ invoked' # <<>>
    /\ invoked'[1].command = (IF goos = "linux" THEN "nmcli" ELSE "airport")

\* C21: when a scan of the polling loop returns an error the program goes on:
\* nothing is displayed in that cycle (no rows, no recommendations, no network
\* of an earlier cycle is left), the only step is the 5-second backoff, it
\* displays nothing, and the step after it is a new scan.
C21_FailedScanBacksOff ==
    /\ [](pc = "backoff" =>
            (networks = <<>> /\ shown = <<>> /\ recs = NoRecs /\ ENABLED Next))
    /\ [][pc = "backoff" =>
            (pc' = "loop" /\ networks' = <<>> /\ shown' = <<>> /\ recs' = NoRecs)]_vars
    /\ [][pc = "loop" => IsScanStep]_vars

\* a scan of the loop failed on Linux: nmcli failed and so did iwlist
C21_Witness ==
    /\ pc = "backoff"
    /\ goos = "linux"
    /\ Len(invoked) = 3
    /\ invoked[3] = Failed("iwlist")

\* the positions of main inside a successful cycle, after its scan
C22_afterScan == {"sort", "display", "recommend", "sleep"}

\* t holds the elements of s, each as often as s does
C22_isPermutation(s, t) ==
    /\ Len(s) = Len(t)
    /\ \A x \in Range(s) \cup Range(t) :
          Cardinality({i \in DOMAIN s : s[i] = x})
              = Cardinality({i \in DOMAIN t : t[i] = x})

\* C22: a cycle is one sequence of steps: the scan, the sort of its networks
\* by ascending CongestionScore, the display of exactly these networks, the
\* display of the recommendations computed from these networks, the wait and
\* only then the next scan; no step between scan and wait runs a scan command
\* or changes the list other than by the sort.
C22_CycleOrder ==
    /\ [][/\ pc = "loop" => IsScanStep
          /\ pc = "sort" => (pc' = "display"
                             /\ C22_isPermutation(networks, networks'))
          /\ pc = "display" => (pc' = "recommend" /\ networks' = networks)
          /\ pc = "recommend" => (pc' = "sleep" /\ networks' = networks
                                  /\ shown' = shown)
          /\ pc = "sleep" => (pc' = "loop" /\ UNCHANGED <<networks, shown, recs>>)
          /\ pc \in C22_afterScan => UNCHANGED <<channelMap, invoked>>]_vars
    /\ [](pc \in {"sort", "display"} => (shown = <<>> /\ recs = NoRecs))
    /\ [](pc \in {"display", "recommend", "sleep"} =>
            \A i, j \in DOMAIN networks :
                i < j => networks[i].CongestionScore <= networks[j].CongestionScore)
    /\ [](pc \in {"recommend", "sleep"} =>
            shown = [i \in DOMAIN networks |-> ResultRow(networks[i])])
    /\ [](pc = "recommend" => recs = NoRecs)
    /\ [](pc = "sleep" =>
            \E orders \in RecommendationOrders(networks) :
                recs = GetChannelRecommendations(networks, tieRule, orders))

\* a cycle reached its wait with two networks of different scores displayed
\* in ascending order
C22_Witness ==
    /\ pc = "sleep"
    /\ Len(networks) = 2
    /\ Len(shown) = 2
    /\ networks[1].CongestionScore < networks[2].CongestionScore
    /\ Len(recs["2.4G"]) = 3

\* the positions of main from the end of a successful initial scan on
C23_monitoring ==
    {"channelinfo", "loop", "backoff", "sort", "display", "recommend", "sleep"}

\* C23: once the initial scan has succeeded the program never ends by itself
\* (every step keeps it in the loop, and it goes on stepping), the end
\* of every cycle, successful or failed, is followed by the next scan, and if
\* scans succeed again and again then results and recommendations are
\* displayed again and again.
C23_ContinuousMonitoring ==
    /\ [][(pc \in C23_monitoring) => (pc' \in C23_monitoring)]_vars
    /\ (pc \in {"sleep", "backoff"}) ~> (pc = "loop")
    /\ (pc = "loop") ~> (pc \in {"sort", "backoff"})
    /\ ([]<>(pc = "sort")) => ([]<>(pc = "sleep" /\ Len(recs["2.4G"]) = 3))

\* the commands of the iwlist path ran, in their order, behind a failed nmcli
C24_fallback ==
    /\ invoked[1].failed
    /\ Len(invoked) \in {2, 3}
    /\ invoked[2].command = "iw"
    /\ Len(invoked) = 3 => (~invoked[2].failed /\ invoked[3].command = "iwlist")

\* the iwlist path returned an error: the interface lookup failed (the command,
\* or no interface in its output) or the iwlist command failed
C24_fallbackFailed ==
    Len(invoked) = 2 \/ (Len(invoked) = 3 /\ invoked[3].failed)

\* C24: a Linux scan runs nmcli first; the interface lookup and iwlist run
\* only in a scan whose nmcli command failed; when nmcli succeeded the scan
\* returns what parseNmcliOutput made of its output, an empty list included,
\* and no error; the scan returns an error only when nmcli failed and the
\* iwlist path failed too.
C24_NmcliFirstIwlistFallback ==
    (goos = "linux" /\ invoked # <<>>) =>
        /\ invoked[1].command = "nmcli"
        /\ Len(invoked) > 1 => C24_fallback
        /\ ~invoked[1].failed =>
              /\ Len(invoked) = 1
              /\ pc \notin {"fatal", "backoff", "panic"}
              /\ pc \in {"channelinfo", "sort"} =>
                    \E o \in NmcliOutputs : networks = parseNmcliOutput(o).networks
        /\ invoked[1].failed => Len(invoked) > 1
        /\ pc \in {"fatal", "backoff"} => (invoked[1].failed /\ C24_fallbackFailed)

\* nmcli succeeded without any network in its output: the empty list was
\* returned and the cycle went on with it
C24_Witness ==
    /\ goos = "linux"
    /\ pc = "sort"
    /\ invoked = <<Ran("nmcli")>>
    /\ networks = <<>>

\* C25: every macOS scan runs system_profiler SPAirPortDataType first, and the
\* networks it returns are those parsed from the system_profiler output.
C25_SystemProfilerIsPrimary ==
    (goos = "darwin" /\ invoked # <<>>) =>
        /\ invoked[1].command = "system_profiler"
        /\ pc \in {"channelinfo", "sort"} =>
              \E o \in ProfilerOutputs :
                  networks = parseSystemProfilerOutput(o).networks

\* the same-channel penalty of a landscape entry: 50 per network, 30 more for
\* a strongest signal above -60 dBm
C26_samePenalty(net) ==
    float64FromInt(net.NetworkCount * 50
                   + (IF net.StrongestRSSI > -60 THEN 30 ELSE 0))

\* the score of the candidate at the frequency takes the same-channel penalty
\* from the entry net (no adjacent-channel term has that value: those are 20,
\* 10 and 0 per network plus a signal term below 20)
C26_penalised(frequency, net) ==
    contribution24(Zero64, frequency, net) = C26_samePenalty(net)

\* the reasoning texts that say no network was detected on the channel
C26_noneDetected ==
    {<<"Optimal: Non-overlapping channel with no detected networks">>,
     <<"Good: No networks detected, minimal interference expected">>}

\* C26: when the recommendations of a cycle are computed, a 2.4GHz candidate
\* takes the same-channel penalty only from observations whose channel number
\* is the candidate's, whatever channel numbers the 2.4G observations carry;
\* a recommendation that says no networks were detected has none in its score.
C26_SameChannelPenaltyOnlyFromOwnChannel ==
    pc = "sleep" =>
        LET analysis == analyzeChannelLandscape(networks, "2.4G")
        IN /\ \A i \in DOMAIN availableChannels, k \in DOMAIN analysis :
                 C26_penalised(analyzer_channelToFrequency(availableChannels[i]),
                               analysis[k])
                     => analysis[k].Channel = availableChannels[i]
           /\ \A i \in DOMAIN recs["2.4G"], k \in DOMAIN analysis :
                 recs["2.4G"][i].Reasoning \in C26_noneDetected
                     => ~C26_penalised(recs["2.4G"][i].Frequency, analysis[k])

\* observations that do not carry the band label: the other band, an empty
\* label and a label of a third band, on channel numbers of either band
C27_foreign(band) ==
    {[Band |-> b, Channel |-> ch, Signal |-> -30, StationCount |-> 1,
      ChannelWidth |-> "Unknown"] :
        b \in {"2.4G", "5G", "6G", ""} \ {band}, ch \in {1, 36}}

\* the list without its i-th element
C27_without(nets, i) ==
    [j \in 1..(Len(nets) - 1) |-> IF j < i THEN nets[j] ELSE nets[j + 1]]

\* the lists that differ from nets in one observation not labelled band: one
\* added in front or behind, one removed, one replaced by another
C27_variants(nets, band) ==
    {Append(nets, o) : o \in C27_foreign(band)}
    \cup {<<o>> \o nets : o \in C27_foreign(band)}
    \cup {C27_without(nets, i) : i \in {j \in DOMAIN nets : nets[j].Band # band}}
    \cup {[nets EXCEPT ![i] = o] :
            i \in {j \in DOMAIN nets : nets[j].Band # band},
            o \in C27_foreign(band)}

\* C27: the recommendation list of a band (channels, order, scores, gaps,
\* levels, reasoning) and the landscape it is computed from are the same for
\* every list that differs only in observations not labelled with that band,
\* for 2.4G and for 5G; observations with any other label change neither.
C27_BandsAreIndependent ==
    call.fn = "GetChannelRecommendations" =>
        \A band \in {"2.4G", "5G"} :
            \A nets \in C27_variants(call.networks, band) :
                /\ analyzeChannelLandscape(nets, band)
                       = analyzeChannelLandscape(call.networks, band)
                /\ GetChannelRecommendations(nets, tieRule, call.orders)[band]
                       = call.ret[band]

\* recommendations were computed for a 2.4G and a 5G observation, both seen
\* by their band: neither band came back all clear
C27_Witness ==
    /\ call.fn = "GetChannelRecommendations"
    /\ Len(call.networks) = 2
    /\ call.networks[1].Band = "2.4G"
    /\ call.networks[1].Channel = 1
    /\ call.networks[2].Band = "5G"
    /\ call.networks[2].Channel = 36
    /\ \A i \in 1..3 : call.ret["2.4G"][i].Channel # 1
    /\ \A i \in 1..3 : call.ret["5G"][i].Channel # 36

\* the list of the call without its last observation
C28_before == SubSeq(call.networks, 1, Len(call.networks) - 1)

\* no 2.4GHz candidate scores less on the landscape after than it can score
\* on the landscape before
C28_monotone24(before, after, order) ==
    \A ob \in IterationOrders(before), i \in DOMAIN availableChannels :
        LET ch == availableChannels[i]
            freq == analyzer_channelToFrequency(ch)
        IN float64Leq(calculate24GHzScore(ch, freq, before, ob),
                      calculate24GHzScore(ch, freq, after, order))

\* no 5GHz candidate scores less on the landscape after than it can score on
\* the landscape before
C28_monotone5(before, after, order) ==
    \A ob \in IterationOrders(before), i \in DOMAIN getAllAvailable5GHzChannels :
        LET ch == getAllAvailable5GHzChannels[i]
            freq == analyzer_channelToFrequency(ch)
        IN float64Leq(calculate5GHzScore(ch, freq, before, ob),
                      calculate5GHzScore(ch, freq, after, order))

\* C28: one more observation in a band, on a new or an occupied channel and
\* with any signal, never decreases the score of a candidate channel of that
\* band: the scores computed for the list of a call are not below the scores
\* computed for the list without its last observation.
C28_ScoresMonotoneInObservations ==
    (call.fn = "GetChannelRecommendations" /\ call.networks # <<>>) =>
        /\ C28_monotone24(analyzeChannelLandscape(C28_before, "2.4G"),
                          analyzeChannelLandscape(call.networks, "2.4G"),
                          call.orders.o24)
        /\ C28_monotone5(analyzeChannelLandscape(C28_before, "5G"),
                         analyzeChannelLandscape(call.networks, "5G"),
                         call.orders.o5)

\* the returned networks on channel c
C29_on(c) == {i \in DOMAIN networks : networks[i].Channel = c}

\* the strongest Signal among the returned networks on channel c
C29_strongest(c) ==
    CHOOSE s \in {networks[i].Signal : i \in C29_on(c)} :
        \A i \in C29_on(c) : networks[i].Signal <= s

RECURSIVE C29_sum(_, _)
\* the sum of NetworkCount over the channels S of map m
C29_sum(m, S) ==
    IF S = {} THEN 0
    ELSE LET c == CHOOSE x \in S : TRUE
         IN m[c].NetworkCount + C29_sum(m, S \ {c})

\* C29: after a scan, whichever parse path produced it and whatever records
\* it read, the channel map and the returned list agree: the map has an entry
\* for channel c iff some returned network has Channel c, the entry's
\* NetworkCount is the number of returned networks on c, its StrongestRSSI the
\* maximum Signal among them, and the NetworkCount values add up to the
\* number of returned networks.
C29_MapAgreesWithNetworks ==
    /\ DOMAIN channelMap = {networks[i].Channel : i \in DOMAIN networks}
    /\ \A c \in DOMAIN channelMap :
          /\ channelMap[c].Channel = c
          /\ channelMap[c].NetworkCount = Cardinality(C29_on(c))
          /\ channelMap[c].StrongestRSSI = C29_strongest(c)
    /\ C29_sum(channelMap, DOMAIN channelMap) = Len(networks)

\* a scan returned two networks on one channel, the weaker one first
C29_Witness ==
    /\ pc = "sort"
    /\ \E i, j \in DOMAIN networks :
          /\ i < j
          /\ networks[i].Channel = networks[j].Channel
          /\ networks[i].Signal < networks[j].Signal

\* the scan whose commands are in invoked' returned an error: no scanner for
\* the system, or its last command failed, or "iw dev" named no interface
C30_failed ==
    \/ invoked' = <<>>
    \/ invoked'[Len(invoked')].failed
    \/ invoked'[Len(invoked')].command = "iw"

\* the positions of main inside "for { ... }"
C30_inLoop == {"loop", "backoff", "sort", "display", "recommend", "sleep"}

\* C30: the loop is entered only after an initial scan that returned no
\* error.  When the initial scan returns an error (a system with no scanner,
\* or failed scan commands) main ends in log.Fatalf: from there it takes no
\* further step, so it neither retries nor scans a second time, and it has
\* displayed no results and no recommendations.
C30_FatalInitialScan ==
    /\ [][(pc = "start") =>
             /\ pc' \in {"fatal", "panic", "channelinfo"}
             /\ C30_failed <=> pc' = "fatal"]_vars
    /\ [][(pc' \in C30_inLoop) => (pc \in C30_inLoop \cup {"channelinfo"})]_vars
    /\ [][pc' = "fatal" => pc = "start"]_vars
    /\ [][pc # "fatal"]_vars
    /\ [](pc = "fatal" => shown = <<>> /\ recs = NoRecs /\ networks = <<>>)
    /\ [](goos = "windows" => pc \in {"start", "fatal"})

\* the initial scan on Linux failed after nmcli, "iw dev" and iwlist were run
C30_Witness ==
    /\ pc = "fatal"
    /\ goos = "linux"
    /\ Len(invoked) = 3
    /\ invoked[1].failed /\ invoked[3].failed

====
